---- MODULE Spec2Model ----
(***************************************************************************)
(* A model of the bug-severity mining pipeline:                            *)
(*   src/bugsage/utils/git_ops.py   (branch resolution, commit metadata,   *)
(*                                   diff parsing)                         *)
(*   scripts/02_extract_commits.py  (issue references, inclusion filters,  *)
(*                                   record expansion)                     *)
(*   scripts/03_label_commits.py    (severity signal fusion)               *)
(*   scripts/04_compute_temporal.py (file age, churn, recent severe)       *)
(*                                                                         *)
(* Text (messages, paths, keywords, patterns) is a sequence of tokens and   *)
(* stands for their concatenation (white space is a token of its own); a   *)
(* substring test is a contiguous-subsequence test on tokens.  Time is an  *)
(* integer number of ticks, TicksPerDay ticks to the day.  Confidences are *)
(* integers in hundredths; a quotient is kept as numerator and divisor.    *)
(***************************************************************************)
EXTENDS Integers, Sequences, FiniteSets, TLC

VARIABLES
    tpc,        \* 04: position in compute_temporal_features
    tInput,     \* 04: the table read from the labeled CSV (pd.read_csv)
    df,         \* 04: the sorted table with the three feature columns
    idx,        \* 04: the row the loop is at (1-based; Python's idx + 1)
    spc,        \* 03: position in assign_severity
    row,        \* 03: the row handed to assign_severity
    config,     \* 03: config['labels']['keyword_patterns']
    result,     \* 03: what assign_severity returned or raised
    xpc,        \* 02: position in extract_commits
    filters,    \* 02: config['extraction']
    total_commits, \* 02: len(commit_shas)
    nScanned,   \* 02: commits of commit_shas taken by the loop so far
    lastCommit, \* 02: outcome of the last loop iteration
    records,    \* 02: the records list
    filter_stats, \* 02: the filter_stats dict
    warnings,   \* git_ops: "Failed to parse diff" lines printed by split_hunks
    branch,     \* git_ops: the branch list_commits walks
    refs,       \* git_ops: the revisions repo.commit() can resolve
    active_branch, \* git_ops: the branch HEAD points at, or Detached
    ipc,        \* 02: position in extract_issue_id
    commit_message, \* 02: the message handed to extract_issue_id
    issue_id,   \* 02: what extract_issue_id returned
    gpc,        \* backfill: position in the generator paged
    url,        \* backfill: the url the next request goes to, or None
    params,     \* backfill: whether params still holds the first page's query
    limit,      \* backfill: the limit argument of paged
    pulled,     \* backfill: list items yielded so far
    yielded,    \* backfill: items handed to the consumer so far
    resp,       \* backfill: the response of the last SESSION.get
    nRequests,  \* backfill: calls of SESSION.get so far
    slept       \* backfill: seconds spent in time.sleep so far

vars == <<tpc, tInput, df, idx, spc, row, config, result,
          xpc, filters, total_commits, nScanned, lastCommit, records, filter_stats,
          warnings, branch, refs, active_branch,
          ipc, commit_message, issue_id,
          gpc, url, params, limit, pulled, yielded, resp, nRequests, slept>>

temporalVars == <<tpc, tInput, df, idx>>
severityVars == <<spc, row, config, result>>
extractVars  == <<xpc, filters, total_commits, nScanned, lastCommit, records,
                  filter_stats, warnings>>
branchVars   == <<branch, refs, active_branch>>
issueVars    == <<ipc, commit_message, issue_id>>
pagedVars    == <<gpc, url, params, limit, pulled, yielded, resp, nRequests, slept>>

(***************************************************************************)
(* Generic helpers                                                         *)
(***************************************************************************)
Range(s) == {s[i] : i \in 1..Len(s)}

SeqsUpTo(S, n) == UNION {[1..k -> S] : k \in 0..n}

\* Python's `pat in text` on token sequences
Contains(text, pat) ==
    \E i \in 0..(Len(text) - Len(pat)) :
        \A j \in 1..Len(pat) : text[i + j] = pat[j]

\* Python's text.endswith(suf)
EndsWith(text, suf) ==
    /\ Len(suf) <= Len(text)
    /\ \A j \in 1..Len(suf) : text[Len(text) - Len(suf) + j] = suf[j]

(***************************************************************************)
(* scripts/04_compute_temporal.py                                          *)
(***************************************************************************)
MaxRecords == 3
TicksPerDay == 2
ChurnWindowDays == 60
SevereWindowDays == 30

Files == {"a.py", "b.py"}
Severities == {"high", "medium", "low"}

\* commit times: day 0, 10, 40, one tick before day 70, day 70
Times == {0, 10 * TicksPerDay, 40 * TicksPerDay,
          70 * TicksPerDay - 1, 70 * TicksPerDay}

\* one row of the labeled CSV, without its identity
RowData == [file_path : Files, commit_time : Times, severity_label : Severities]

\* rid stands for the identity (commit_sha, file_path) of a row
WithRid(r, i) ==
    [rid |-> i, file_path |-> r.file_path, commit_time |-> r.commit_time,
     severity_label |-> r.severity_label]

Tables ==
    {[i \in 1..Len(t) |-> WithRid(t[i], i)] : t \in SeqsUpTo(RowData, MaxRecords)}

\* pd.NaT, the missing timestamp (pandas keeps it as the least int64)
NaT == -2147483647

\* a commit_time cell of the CSV that is empty (read_csv gives NaN)
EmptyCell == -2147483646

\* a commit_time cell holding text that no timestamp format matches
Unparseable == -2147483645

\* comparisons of timestamps: every comparison with NaT is False
Before(a, b) == a # NaT /\ b # NaT /\ a < b
NotAfter(a, b) == a # NaT /\ b # NaT /\ a <= b

\* Timestamp - Timedelta: NaT stays NaT
Minus(a, delta) == IF a = NaT THEN NaT ELSE a - delta

\* timedelta(days=n)
timedelta(days) == days * TicksPerDay

\* Timedelta.days
DaysOf(delta) == delta \div TicksPerDay

\* Series.min() over the commit_time column
SeqMin(s) ==
    CHOOSE m \in {s[k].commit_time : k \in 1..Len(s)} :
        \A k \in 1..Len(s) : m <= s[k].commit_time

\* compute_file_age measuring from the newest older record instead of the oldest
compute_file_age_max(d, file_path, commit_time) ==
    LET file_commits == SelectSeq(d, LAMBDA r : r.file_path = file_path)
        earlier == SelectSeq(file_commits, LAMBDA r : Before(r.commit_time, commit_time))
    IN  IF Len(earlier) = 0 THEN 0
        ELSE DaysOf(commit_time -
                    (CHOOSE m \in {earlier[k].commit_time : k \in 1..Len(earlier)} :
                        \A k \in 1..Len(earlier) : m >= earlier[k].commit_time))

compute_file_age(d, file_path, commit_time) ==
    LET file_commits == SelectSeq(d, LAMBDA r : r.file_path = file_path)
        earlier == SelectSeq(file_commits, LAMBDA r : Before(r.commit_time, commit_time))
    IN  IF Len(earlier) = 0 THEN 0
        ELSE DaysOf(commit_time - SeqMin(earlier))

\* compute_churn with the window start excluded
compute_churn_open_start(d, file_path, commit_time, window_days) ==
    LET window_start == Minus(commit_time, timedelta(window_days))
        file_commits == SelectSeq(d, LAMBDA r : r.file_path = file_path)
    IN  Len(SelectSeq(file_commits,
            LAMBDA r : Before(window_start, r.commit_time) /\ Before(r.commit_time, commit_time)))

\* compute_churn with the current timestamp included in the window
compute_churn_inclusive(d, file_path, commit_time, window_days) ==
    LET window_start == Minus(commit_time, timedelta(window_days))
        file_commits == SelectSeq(d, LAMBDA r : r.file_path = file_path)
    IN  Len(SelectSeq(file_commits,
            LAMBDA r : NotAfter(window_start, r.commit_time) /\ NotAfter(r.commit_time, commit_time)))

compute_churn(d, file_path, commit_time, window_days) ==
    LET window_start == Minus(commit_time, timedelta(window_days))
        file_commits == SelectSeq(d, LAMBDA r : r.file_path = file_path)
    IN  Len(SelectSeq(file_commits,
            LAMBDA r : NotAfter(window_start, r.commit_time) /\ Before(r.commit_time, commit_time)))

\* compute_recent_severe without the test on the label
compute_recent_severe_any_label(d, file_path, commit_time, window_days) ==
    compute_churn(d, file_path, commit_time, window_days)

\* compute_recent_severe with the current timestamp included in the window
compute_recent_severe_inclusive(d, file_path, commit_time, window_days) ==
    LET window_start == Minus(commit_time, timedelta(window_days))
        file_commits == SelectSeq(d, LAMBDA r : r.file_path = file_path)
    IN  Len(SelectSeq(file_commits,
            LAMBDA r : /\ NotAfter(window_start, r.commit_time)
                       /\ NotAfter(r.commit_time, commit_time)
                       /\ r.severity_label = "high"))

\* the count of all earlier high-severity commits, whatever their age
compute_recent_severe_no_window(d, file_path, commit_time, window_days) ==
    Cardinality({i \in 1..Len(d) :
        /\ d[i].file_path = file_path
        /\ Before(d[i].commit_time, commit_time)
        /\ d[i].severity_label = "high"})

compute_recent_severe(d, file_path, commit_time, window_days) ==
    LET window_start == Minus(commit_time, timedelta(window_days))
        file_commits == SelectSeq(d, LAMBDA r : r.file_path = file_path)
    IN  Len(SelectSeq(file_commits,
            LAMBDA r : /\ NotAfter(window_start, r.commit_time)
                       /\ Before(r.commit_time, commit_time)
                       /\ r.severity_label = "high"))

\* every arrangement of the rows S in non-decreasing commit_time, NaT last
\* (na_position='last'); the default sort kind is not stable, so rows of equal
\* commit_time may come in any order
RECURSIVE SortedArrangements(_)
SortedArrangements(S) ==
    IF S = {} THEN {<<>>}
    ELSE UNION {{<<r>> \o s : s \in SortedArrangements(S \ {r})} :
                r \in {r \in S : \A q \in S :
                          \/ q.commit_time = NaT
                          \/ NotAfter(r.commit_time, q.commit_time)}}

\* pd.to_datetime on the commit_time column (errors='raise'): an empty cell
\* becomes NaT, a parseable one its timestamp
to_datetime(t) ==
    [i \in 1..Len(t) |->
        [t[i] EXCEPT !.commit_time = IF @ = EmptyCell THEN NaT ELSE @]]

\* whether pd.to_datetime raises on the column
to_datetime_raises(t) == \E i \in 1..Len(t) : t[i].commit_time = Unparseable

\* the three feature columns initialised to 0
WithFeatures(r) ==
    [rid |-> r.rid, file_path |-> r.file_path, commit_time |-> r.commit_time,
     severity_label |-> r.severity_label,
     file_age_days |-> 0, churn_60d |-> 0, recent_severe_30d |-> 0]

\* df.sort_values('commit_time').reset_index(drop=True) and the zeroed columns
sort_values(t) ==
    {[i \in 1..Len(s) |-> WithFeatures(s[i])] : s \in SortedArrangements(Range(t))}

\* df.iloc[idx:] for the 1-based row i
iloc_from(d, i) == SubSeq(d, i, Len(d))

\* df.iloc[:idx+1] for the 1-based row i
iloc_upto(d, i) == SubSeq(d, 1, i)

\* one iteration of the loop over df.iterrows()
RowFeatures(d, i) ==
    [d[i] EXCEPT
        !.file_age_days =
            compute_file_age(iloc_upto(d, i), d[i].file_path, d[i].commit_time),
        !.churn_60d =
            compute_churn(iloc_upto(d, i), d[i].file_path, d[i].commit_time,
                          ChurnWindowDays),
        !.recent_severe_30d =
            compute_recent_severe(iloc_upto(d, i), d[i].file_path, d[i].commit_time,
                                  SevereWindowDays)]

TemporalIdle ==
    /\ tpc = "idle" /\ tInput = <<>> /\ df = <<>> /\ idx = 0

InitTemporal ==
    /\ tpc = "read"
    /\ tInput \in Tables
    /\ df = <<>>
    /\ idx = 0

\* lines 104-114
SortValues ==
    /\ tpc = "read"
    /\ ~ to_datetime_raises(tInput)
    /\ df' \in sort_values(to_datetime(tInput))
    /\ idx' = 1
    /\ tpc' = "loop"
    /\ UNCHANGED tInput
    /\ UNCHANGED severityVars
    /\ UNCHANGED extractVars
    /\ UNCHANGED branchVars
    /\ UNCHANGED issueVars
    /\ UNCHANGED pagedVars

\* lines 117-139
ComputeRow ==
    /\ tpc = "loop"
    /\ idx <= Len(df)
    /\ df' = [df EXCEPT ![idx] = RowFeatures(df, idx)]
    /\ idx' = idx + 1
    /\ UNCHANGED <<tpc, tInput>>
    /\ UNCHANGED severityVars
    /\ UNCHANGED extractVars
    /\ UNCHANGED branchVars
    /\ UNCHANGED issueVars
    /\ UNCHANGED pagedVars

\* the loop is exhausted and the table is returned
ReturnTable ==
    /\ tpc = "loop"
    /\ idx > Len(df)
    /\ tpc' = "done"
    /\ UNCHANGED <<tInput, df, idx>>
    /\ UNCHANGED severityVars
    /\ UNCHANGED extractVars
    /\ UNCHANGED branchVars
    /\ UNCHANGED issueVars
    /\ UNCHANGED pagedVars

NextTemporal == SortValues \/ ComputeRow \/ ReturnTable

\* tables whose commit_time cells may be empty or unparseable
MaxRawRecords == 2

RawTimes == {0, 10 * TicksPerDay, EmptyCell, Unparseable}

RawTables ==
    {[i \in 1..Len(t) |-> WithRid(t[i], i)] :
        t \in SeqsUpTo([file_path : Files, commit_time : RawTimes,
                        severity_label : Severities], MaxRawRecords)}

InitRawTable ==
    /\ tpc = "read"
    /\ tInput \in RawTables
    /\ df = <<>>
    /\ idx = 0

\* line 104: pd.to_datetime raises and compute_temporal_features is left
ToDatetimeRaises ==
    /\ tpc = "read"
    /\ to_datetime_raises(tInput)
    /\ tpc' = "raised"
    /\ UNCHANGED <<tInput, df, idx>>
    /\ UNCHANGED severityVars
    /\ UNCHANGED extractVars
    /\ UNCHANGED branchVars
    /\ UNCHANGED issueVars
    /\ UNCHANGED pagedVars

NextRawTable == SortValues \/ ToDatetimeRaises \/ ComputeRow \/ ReturnTable

(***************************************************************************)
(* scripts/03_label_commits.py                                             *)
(***************************************************************************)
\* str.lower() by token
LowerToken(t) ==
    CASE t = "CRASH" -> "crash"
      [] t = "Fix"   -> "fix"
      [] t = "Merge" -> "merge"
      [] t = "Auth"  -> "auth"
      [] t = "GH-"   -> "gh-"
      [] t = "Fixes" -> "fixes"
      [] t = "Rate"  -> "rate"
      [] t = "Limit" -> "limit"
      [] OTHER       -> t

Lower(text) == [i \in 1..Len(text) |-> LowerToken(text[i])]

\* a message cell of the CSV: a string, or NaN when the cell is empty
Text(t) == [nan |-> FALSE, text |-> t]
NaN == [nan |-> TRUE, text |-> <<>>]

Messages ==
    { Text(<<"fix", ":", "crash", "in", "transport/", "zeromq", ".py">>),
      Text(<<"Fix", "typo">>),
      Text(<<"typo", "in", "doc", "s">>),
      Text(<<"CRASH", "on", "start">>),
      Text(<<"typo", "after", "CRASH">>),
      Text(<<"Merge", "branch">>),
      Text(<<"update", "deps">>),
      Text(<<>>),
      NaN }

FilePaths ==
    { <<"salt/", "transport/", "zeromq", ".py">>,
      <<"salt/", "Auth", "test", ".py">>,
      <<"salt/", "auth", ".py">>,
      <<"salt/", "token", "auth", ".py">>,
      <<"salt/", "modules/", "x", ".py">>,
      <<"salt/", "modules/", "test", ".py">>,
      <<"salt/", "transport/", "ipc", ".py">>,
      <<"test", "s/", "unit", ".py">>,
      <<"doc", "s/", "index", ".rst">>,
      <<"setup", ".py">> }

Insertions == {0, 2, 3, 100, 250, 251, 600}
Deletions == {0, 2, 100, 250}

Rows ==
    [message : Messages, file_path : FilePaths,
     insertions : Insertions, deletions : Deletions]

\* values of config['labels']['keyword_patterns']: every severity listed, the
\* 'high' list absent, and the key absent altogether (the .get default {})
KeywordConfigs ==
    { [high |-> << <<"crash">>, <<"security">> >>,
       medium |-> << <<"error">>, <<"fix">> >>,
       low |-> << <<"typo">> >>],
      [medium |-> << <<"crash">> >>, low |-> << <<"typo">>, <<"fix">> >>],
      [x \in {} |-> <<>>] }

\* extract_keywords scanning the severities in the order low, medium, high
extract_keywords_low_first(text, keyword_dict) ==
    LET text_lower == Lower(text)
        found(severity) ==
            /\ severity \in DOMAIN keyword_dict
            /\ \E k \in 1..Len(keyword_dict[severity]) :
                   Contains(text_lower, keyword_dict[severity][k])
    IN  IF found("low") THEN "low"
        ELSE IF found("medium") THEN "medium"
        ELSE IF found("high") THEN "high"
        ELSE "None"

\* lines 28-48
extract_keywords(text, keyword_dict) ==
    LET text_lower == Lower(text)
        found(severity) ==
            /\ severity \in DOMAIN keyword_dict
            /\ \E k \in 1..Len(keyword_dict[severity]) :
                   Contains(text_lower, keyword_dict[severity][k])
    IN  IF found("high") THEN "high"
        ELSE IF found("medium") THEN "medium"
        ELSE IF found("low") THEN "low"
        ELSE "None"

Signal(sev, conf, reason, pattern) ==
    [severity |-> sev, confidence |-> conf, reason |-> reason, pattern |-> pattern]

\* lines 51-77
classify_by_keywords(message, keyword_patterns) ==
    LET severity == extract_keywords(message, keyword_patterns)
    IN  IF severity # "None"
        THEN Signal(severity,
                    IF severity = "high" THEN 85
                    ELSE IF severity = "medium" THEN 70 ELSE 60,
                    "keyword", <<>>)
        ELSE Signal("None", 0, "None", <<>>)

high_severity_patterns ==
    << <<"auth">>, <<"security">>, <<"crypt">>, <<"password">>,
       <<"token">>, <<"session">>, <<"permission">>,
       <<"transport/", "tcp">>, <<"transport/", "zeromq">>,
       <<"database">>, <<"sql">>, <<"query">> >>

medium_severity_patterns ==
    << <<"modules/">>, <<"states/">>, <<"grains/">>,
       <<"utils/">>, <<"transport/">>, <<"client/">> >>

low_severity_patterns ==
    << <<"test">>, <<"doc">>, <<"example">>, <<"template">>,
       <<"readme">>, <<"changelog">>, <<"license">> >>

Matches(patterns, path) == {k \in 1..Len(patterns) : Contains(path, patterns[k])}

\* the pattern the for loop returns on: the first one in list order
FirstMatch(patterns, path) ==
    patterns[CHOOSE k \in Matches(patterns, path) :
                 \A j \in Matches(patterns, path) : k <= j]

\* classify_by_file_path returning the last matching pattern of the family
classify_by_file_path_last_pattern(file_path) ==
    LET path_lower == Lower(file_path)
        LastMatch(patterns) ==
            patterns[CHOOSE k \in Matches(patterns, path_lower) :
                        \A j \in Matches(patterns, path_lower) : j <= k]
    IN  IF Matches(high_severity_patterns, path_lower) # {}
        THEN Signal("high", 60, "critical_file", LastMatch(high_severity_patterns))
        ELSE IF Matches(medium_severity_patterns, path_lower) # {}
        THEN Signal("medium", 50, "core_file", LastMatch(medium_severity_patterns))
        ELSE IF Matches(low_severity_patterns, path_lower) # {}
        THEN Signal("low", 70, "non_critical", LastMatch(low_severity_patterns))
        ELSE Signal("medium", 30, "unknown_file", <<>>)

\* lines 80-130
classify_by_file_path(file_path) ==
    LET path_lower == Lower(file_path)
    IN  IF Matches(high_severity_patterns, path_lower) # {}
        THEN Signal("high", 60, "critical_file",
                    FirstMatch(high_severity_patterns, path_lower))
        ELSE IF Matches(medium_severity_patterns, path_lower) # {}
        THEN Signal("medium", 50, "core_file",
                    FirstMatch(medium_severity_patterns, path_lower))
        ELSE IF Matches(low_severity_patterns, path_lower) # {}
        THEN Signal("low", 70, "non_critical",
                    FirstMatch(low_severity_patterns, path_lower))
        ELSE Signal("medium", 30, "unknown_file", <<>>)

\* classify_by_change_size with 200 lines already a large change
classify_by_change_size_from_200(insertions, deletions) ==
    LET total_lines == insertions + deletions
    IN  IF total_lines > 500 THEN Signal("high", 40, "very_large_change", <<>>)
        ELSE IF total_lines >= 200 THEN Signal("medium", 35, "large_change", <<>>)
        ELSE IF total_lines < 5 THEN Signal("low", 50, "tiny_change", <<>>)
        ELSE Signal("None", 0, "None", <<>>)

\* lines 133-155
classify_by_change_size(insertions, deletions) ==
    LET total_lines == insertions + deletions
    IN  IF total_lines > 500 THEN Signal("high", 40, "very_large_change", <<>>)
        ELSE IF total_lines > 200 THEN Signal("medium", 35, "large_change", <<>>)
        ELSE IF total_lines < 5 THEN Signal("low", 50, "tiny_change", <<>>)
        ELSE Signal("None", 0, "None", <<>>)

\* the signals list with the change-size signal appended first
present_signals_size_first(r, keyword_patterns) ==
    LET kw == classify_by_keywords(r.message.text, keyword_patterns)
        fp == classify_by_file_path(r.file_path)
        sz == classify_by_change_size(r.insertions, r.deletions)
    IN  (IF sz.severity # "None" THEN <<sz>> ELSE <<>>)
        \o (IF kw.severity # "None" THEN <<kw>> ELSE <<>>)
        \o <<fp>>

\* lines 174-207: the signals list, in the order the signals are appended
present_signals(r, keyword_patterns) ==
    LET kw == classify_by_keywords(r.message.text, keyword_patterns)
        fp == classify_by_file_path(r.file_path)
        sz == classify_by_change_size(r.insertions, r.deletions)
    IN  (IF kw.severity # "None" THEN <<kw>> ELSE <<>>)
        \o <<fp>>
        \o (IF sz.severity # "None" THEN <<sz>> ELSE <<>>)

RECURSIVE SumConfidence(_, _)
SumConfidence(signals, sev) ==
    IF signals = <<>> THEN 0
    ELSE (IF Head(signals).severity = sev THEN Head(signals).confidence ELSE 0)
         + SumConfidence(Tail(signals), sev)

\* lines 211-216
severity_scores(signals) ==
    [sev \in Severities |-> SumConfidence(signals, sev)]

\* max() over the keys without key=severity_scores.get: the largest key
dict_max_by_key(scores) == "medium"

\* max() returning the last key of the largest score instead of the first
dict_max_last_wins(scores) ==
    IF scores["low"] >= scores["high"] /\ scores["low"] >= scores["medium"]
    THEN "low"
    ELSE IF scores["medium"] >= scores["high"] THEN "medium"
    ELSE "high"

\* line 219: max() over the dict's keys in insertion order high, medium, low
\* returns the first key whose score is the largest
dict_max(scores) ==
    IF scores["high"] >= scores["medium"] /\ scores["high"] >= scores["low"]
    THEN "high"
    ELSE IF scores["medium"] >= scores["low"] THEN "medium"
    ELSE "low"

\* the quotient with the fixed divisor 3
final_confidence_over_three(scores, final_severity, signals) ==
    [num |-> scores[final_severity], den |-> 3]

\* line 220: the quotient, kept as numerator (hundredths) and divisor
final_confidence(scores, final_severity, signals) ==
    [num |-> scores[final_severity], den |-> Len(signals)]

NoResult ==
    [status |-> "none", severity_label |-> "None",
     severity_confidence |-> [num |-> 0, den |-> 1], severity_reasons |-> <<>>]

\* lines 158-229; text.lower() on a NaN message raises AttributeError (line 39)
assign_severity(r, keyword_patterns) ==
    IF r.message.nan
    THEN [NoResult EXCEPT !.status = "AttributeError"]
    ELSE LET signals == present_signals(r, keyword_patterns)
             scores == severity_scores(signals)
             final_severity == dict_max(scores)
         IN  [status |-> "returned",
              severity_label |-> final_severity,
              severity_confidence |->
                  final_confidence(scores, final_severity, signals),
              severity_reasons |->
                  SelectSeq([i \in 1..Len(signals) |->
                                [reason |-> signals[i].reason,
                                 pattern |-> signals[i].pattern]],
                            LAMBDA x : x.reason # "None")]

SeverityIdle ==
    /\ spc = "idle"
    /\ row = [message |-> NaN, file_path |-> <<>>, insertions |-> 0, deletions |-> 0]
    /\ config = [x \in {} |-> <<>>]
    /\ result = NoResult

InitSeverity ==
    /\ spc = "call"
    /\ row \in Rows
    /\ config \in KeywordConfigs
    /\ result = NoResult

\* label_commits line 251: one call of assign_severity
AssignSeverity ==
    /\ spc = "call"
    /\ result' = assign_severity(row, config)
    /\ spc' = "done"
    /\ UNCHANGED <<row, config>>
    /\ UNCHANGED temporalVars
    /\ UNCHANGED extractVars
    /\ UNCHANGED branchVars
    /\ UNCHANGED issueVars
    /\ UNCHANGED pagedVars

NextSeverity == AssignSeverity

(***************************************************************************)
(* scripts/02_extract_commits.py                                           *)
(***************************************************************************)
MaxCommits == 2

\* dict.get(key, default)
Get(d, key, default) == IF key \in DOMAIN d THEN d[key] ELSE default

AuthPy == <<"salt/", "auth", ".py">>
UnitTestPy == <<"test", "s/", "unit", ".py">>
IndexRst == <<"doc", "s/", "index", ".rst">>

\* commit.message as git stores it
CommitMessages ==
    {<<"fix", " ", "#", "12", "\n">>, <<"Merge", " ", "branch">>, <<>>}

\* commit.stats.files.keys(): distinct paths
FileLists ==
    { <<>>, <<AuthPy>>, <<IndexRst>>, <<AuthPy, UnitTestPy>>,
      <<IndexRst, AuthPy>>, <<AuthPy, UnitTestPy, IndexRst>> }

LineStats ==
    { [insertions |-> 0, deletions |-> 0], [insertions |-> 3, deletions |-> 4],
      [insertions |-> 60, deletions |-> 60], [insertions |-> 600, deletions |-> 600] }

Alice == [name |-> "alice", email |-> "alice@example.org"]
Bob == [name |-> "bob", email |-> "bob@example.org"]

\* Python's None where a string is expected
None == "None"

\* one line of the text `git diff --unified=3` prints: a file header, a hunk
\* header with its source start, an added, removed or context line with its
\* content, a white-space-only line, or a line the unidiff parser rejects
DiffLine(k, path, n) == [k |-> k, path |-> path, n |-> n]
FileHeader(path) == DiffLine("file", path, 0)
HunkHeader(source_start) == DiffLine("@@", <<>>, source_start)
AddedLine(value) == DiffLine("+", <<>>, value)
RemovedLine(value) == DiffLine("-", <<>>, value)
ContextLine(value) == DiffLine(" ", <<>>, value)
BlankLine == DiffLine("blank", <<>>, 0)
JunkLine == DiffLine("junk", <<>>, 0)

\* the diff of one changed file: the first file of a commit has two hunks,
\* the others one
FileDiff(path, i) ==
    <<FileHeader(path), HunkHeader(1), ContextLine(1), RemovedLine(2), AddedLine(3)>>
        \o (IF i = 1 THEN <<HunkHeader(9), AddedLine(4)>> ELSE <<>>)

RECURSIVE UnifiedDiffFrom(_, _)
UnifiedDiffFrom(files, i) ==
    IF i > Len(files) THEN <<>>
    ELSE FileDiff(files[i], i) \o UnifiedDiffFrom(files, i + 1)

\* repo.git.diff(parent, sha, unified=3) of a commit that changes `files`
UnifiedDiff(files) == UnifiedDiffFrom(files, 1)

\* a commit object of the repository (git.Commit)
Commit(message, files, st, parents, author, committed_date, diff_text) ==
    [message |-> message, files |-> files,
     insertions |-> st.insertions, deletions |-> st.deletions,
     parents |-> parents, author |-> author,
     committed_date |-> committed_date, diff_text |-> diff_text]

\* ordinary commits: one parent, a well-formed diff
PlainCommits ==
    {Commit(m, f, st, <<"p1">>, Alice, 1, UnifiedDiff(f)) :
        m \in CommitMessages, f \in FileLists, st \in LineStats}

\* root commits (diff_text is what git would print for them, were it asked),
\* merges (two parents) with and without the word in the message, and commits
\* whose diff text is empty, blank or unparsable
SpecialCommits ==
    LET fix == <<"fix", " ", "#", "12", "\n">>
        st == [insertions |-> 3, deletions |-> 4]
    IN  { Commit(fix, <<AuthPy>>, st, <<>>, Bob, 2, UnifiedDiff(<<AuthPy>>)),
          Commit(fix, <<AuthPy>>, st, <<>>, Bob, 2,
                 <<FileHeader(AuthPy), HunkHeader(1), JunkLine>>),
          Commit(fix, <<AuthPy>>, st, <<"p1", "p2">>, Bob, 2, UnifiedDiff(<<AuthPy>>)),
          Commit(<<"Merge", " ", "branch">>, <<AuthPy>>, st, <<"p1", "p2">>, Bob, 2,
                 UnifiedDiff(<<AuthPy>>)),
          Commit(fix, <<AuthPy>>, st, <<"p1">>, Bob, 2, <<>>),
          Commit(fix, <<AuthPy>>, st, <<"p1">>, Bob, 2, <<BlankLine, BlankLine>>),
          Commit(fix, <<AuthPy>>, st, <<"p1">>, Bob, 2,
                 <<FileHeader(AuthPy), HunkHeader(1), JunkLine>>),
          Commit(fix, <<IndexRst, AuthPy>>, st, <<"p2">>, Bob, 2,
                 <<BlankLine, HunkHeader(1), AddedLine(3)>>) }

Commits == PlainCommits \cup SpecialCommits

(***************************************************************************)
(* src/bugsage/utils/git_ops.py: commit metadata and diff parsing          *)
(***************************************************************************)
IsSpace(t) == t \in {" ", "\n"}

\* str.strip()
strip(text) ==
    LET kept == {i \in 1..Len(text) : ~IsSpace(text[i])}
    IN  IF kept = {} THEN <<>>
        ELSE SubSeq(text, CHOOSE i \in kept : \A j \in kept : i <= j,
                          CHOOSE i \in kept : \A j \in kept : j <= i)

\* datetime.fromtimestamp on whole ticks
fromtimestamp(committed_date) == committed_date

get_commit_info(commit_sha, commit) ==
    [sha |-> commit_sha,
     parent_sha |-> IF commit.parents # <<>> THEN commit.parents[1] ELSE None,
     message |-> strip(commit.message),
     author |-> commit.author.name,
     author_email |-> commit.author.email,
     commit_time |-> fromtimestamp(commit.committed_date),
     files_changed |-> commit.files,
     insertions |-> commit.insertions,
     deletions |-> commit.deletions]

\* unidiff's PatchSet(diff_text), one line at a time: a file header opens a
\* patched file, a hunk header opens a hunk of the open file, a change line
\* joins the open hunk; a hunk header outside a file and a junk line raise
Feed(acc, line) ==
    LET nf == Len(acc.files)
    IN  CASE line.k = "file" ->
                [acc EXCEPT !.files = Append(@, [path |-> line.path, hunks |-> <<>>])]
          [] line.k = "@@" ->
                IF nf = 0 THEN [acc EXCEPT !.ok = FALSE]
                ELSE [acc EXCEPT !.files[nf].hunks =
                          Append(@, [source_start |-> line.n, lines |-> <<>>])]
          [] line.k \in {"+", "-", " "} ->
                IF nf = 0 \/ acc.files[nf].hunks = <<>> THEN acc
                ELSE [acc EXCEPT
                        !.files[nf].hunks[Len(acc.files[nf].hunks)].lines =
                            Append(@, line)]
          [] line.k = "blank" -> acc
          [] OTHER -> [acc EXCEPT !.ok = FALSE]

RECURSIVE PatchSetFrom(_, _, _)
PatchSetFrom(diff_text, i, acc) ==
    IF i > Len(diff_text) \/ ~acc.ok THEN acc
    ELSE PatchSetFrom(diff_text, i + 1, Feed(acc, diff_text[i]))

\* ok is FALSE when the constructor raises
PatchSet(diff_text) == PatchSetFrom(diff_text, 1, [ok |-> TRUE, files |-> <<>>])

\* the (patched_file, hunk) pairs in the order the two nested loops visit them
RECURSIVE HunksInOrder(_, _)
HunksInOrder(files, i) ==
    IF i > Len(files) THEN <<>>
    ELSE [j \in 1..Len(files[i].hunks) |->
             [path |-> files[i].path, hunk |-> files[i].hunks[j]]]
         \o HunksInOrder(files, i + 1)

\* diff_text.strip() is empty
IsBlankText(diff_text) == \A i \in 1..Len(diff_text) : diff_text[i].k = "blank"

\* the hunks of a parsed patch set, the numbering restarted at 0 for every
\* file
NumberedHunks_per_file(patch_set) ==
    LET visited == HunksInOrder(patch_set.files, 1)
    IN  [c \in 1..Len(visited) |->
            [hunk_id |-> Cardinality({d \in 1..(c - 1) :
                                        visited[d].path = visited[c].path}),
             file_path |-> visited[c].path,
             old_start |-> visited[c].hunk.source_start,
             added_lines |->
                SelectSeq(visited[c].hunk.lines, LAMBDA l : l.k = "+"),
             removed_lines |->
                SelectSeq(visited[c].hunk.lines, LAMBDA l : l.k = "-")]]

\* the hunks of a parsed patch set, numbered in the order visited
NumberedHunks(patch_set) ==
    LET visited == HunksInOrder(patch_set.files, 1)
    IN  [c \in 1..Len(visited) |->
            [hunk_id |-> c - 1,
             file_path |-> visited[c].path,
             old_start |-> visited[c].hunk.source_start,
             added_lines |->
                SelectSeq(visited[c].hunk.lines, LAMBDA l : l.k = "+"),
             removed_lines |->
                SelectSeq(visited[c].hunk.lines, LAMBDA l : l.k = "-")]]

\* split_hunks that keeps what was parsed before the parser gave up
split_hunks_keeps_partial(diff_text) ==
    IF IsBlankText(diff_text) THEN <<>>
    ELSE NumberedHunks(PatchSet(diff_text))

\* the list split_hunks returns (line numbers of the changed lines left out)
split_hunks(diff_text) ==
    IF IsBlankText(diff_text) THEN <<>>
    ELSE LET patch_set == PatchSet(diff_text)
         IN  IF ~patch_set.ok THEN <<>> ELSE NumberedHunks(patch_set)

\* whether split_hunks prints its warning
split_hunks_warns(diff_text) ==
    ~IsBlankText(diff_text) /\ ~PatchSet(diff_text).ok

\* get_diff without the branch for the initial commit
get_diff_parses_root(commit_sha, commit) ==
    [commit_sha |-> commit_sha,
     parent_sha |-> IF commit.parents = <<>> THEN None ELSE commit.parents[1],
     hunks |-> split_hunks(commit.diff_text),
     files_changed |-> commit.files, insertions |-> commit.insertions,
     deletions |-> commit.deletions, raw_diff |-> commit.diff_text]

get_diff(commit_sha, commit) ==
    IF commit.parents = <<>>
    THEN [commit_sha |-> commit_sha, parent_sha |-> None, hunks |-> <<>>,
          files_changed |-> <<>>, insertions |-> 0, deletions |-> 0,
          raw_diff |-> <<>>]
    ELSE [commit_sha |-> commit_sha, parent_sha |-> commit.parents[1],
          hunks |-> split_hunks(commit.diff_text),
          files_changed |-> commit.files, insertions |-> commit.insertions,
          deletions |-> commit.deletions, raw_diff |-> commit.diff_text]

\* whether get_diff makes split_hunks print its warning
get_diff_warns(commit) ==
    commit.parents # <<>> /\ split_hunks_warns(commit.diff_text)

(***************************************************************************)
(* scripts/02_extract_commits.py: issue references and bug-fix flag        *)
(***************************************************************************)
MaxMessageLen == 4

\* tokens made of decimal digits only
DigitTokens == {"12", "7"}

IssueTokens == {"#", "GH-", "gh-", "Fixes", " ", "see"} \cup DigitTokens

\* the messages extract_issue_id is tried on
IssueMessages == SeqsUpTo(IssueTokens, MaxMessageLen)

\* an issue id (a digit string) or Python's None
IssueId(digits) == [none |-> FALSE, digits |-> digits]
NoIssueId == [none |-> TRUE, digits |-> <<>>]

\* the longest run of digits starting at token i: what (\d+) captures there
RECURSIVE DigitRun(_, _)
DigitRun(text, i) ==
    IF i > Len(text) \/ text[i] \notin DigitTokens THEN <<>>
    ELSE <<text[i]>> \o DigitRun(text, i + 1)

patterns == <<"#(\\d+)", "GH-(\\d+)",
              "(?:fix|fixes|fixed|close|closes|closed|resolve|resolves|resolved)\\s+#(\\d+)">>

IssueVerbs == {"fix", "fixes", "fixed", "close", "closes", "closed",
               "resolve", "resolves", "resolved"}

\* the matches when the third pattern does not ask for the '#'
MatchesOf_verb_without_hash(pattern, text) ==
    LET n == Len(text)
        DigitAt(i) == i <= n /\ text[i] \in DigitTokens
    IN  CASE pattern = patterns[1] ->
                {<<i, i + 1>> : i \in {k \in 1..n : text[k] = "#" /\ DigitAt(k + 1)}}
          [] pattern = patterns[2] ->
                {<<i, i + 1>> :
                    i \in {k \in 1..n : LowerToken(text[k]) = "gh-" /\ DigitAt(k + 1)}}
          [] pattern = patterns[3] ->
                {m \in (1..n) \X (2..(n + 1)) :
                    /\ LowerToken(text[m[1]]) \in IssueVerbs
                    /\ m[2] >= m[1] + 2
                    /\ \A k \in (m[1] + 1)..(m[2] - 1) : IsSpace(text[k])
                    /\ DigitAt(m[2])}

\* where a pattern matches in text: <<start of the match, start of its digits>>
MatchesOf(pattern, text) ==
    LET n == Len(text)
        DigitAt(i) == i <= n /\ text[i] \in DigitTokens
    IN  CASE pattern = patterns[1] ->
                {<<i, i + 1>> : i \in {k \in 1..n : text[k] = "#" /\ DigitAt(k + 1)}}
          [] pattern = patterns[2] ->
                {<<i, i + 1>> :
                    i \in {k \in 1..n : LowerToken(text[k]) = "gh-" /\ DigitAt(k + 1)}}
          [] pattern = patterns[3] ->
                {m \in (1..n) \X (2..(n + 1)) :
                    /\ LowerToken(text[m[1]]) \in IssueVerbs
                    /\ m[2] - 1 >= m[1] + 2
                    /\ \A k \in (m[1] + 1)..(m[2] - 2) : IsSpace(text[k])
                    /\ text[m[2] - 1] = "#"
                    /\ DigitAt(m[2])}

\* re.search(pattern, text, re.IGNORECASE): the leftmost match and its group(1)
re_search(pattern, text) ==
    LET found == MatchesOf(pattern, text)
        first == CHOOSE m \in found : \A o \in found : m[1] <= o[1]
    IN  IF found = {} THEN [matched |-> FALSE, group |-> <<>>]
        ELSE [matched |-> TRUE, group |-> DigitRun(text, first[2])]

\* extract_issue_id with 'GH-<digits>' tried ahead of '#<digits>'
extract_issue_id_gh_first(message) ==
    LET order == <<2, 1, 3>>
        hits == {i \in 1..3 : re_search(patterns[order[i]], message).matched}
        i0 == CHOOSE i \in hits : \A j \in hits : i <= j
    IN  IF hits = {} THEN NoIssueId
        ELSE IssueId(re_search(patterns[order[i0]], message).group)

extract_issue_id(message) ==
    LET hits == {i \in 1..Len(patterns) : re_search(patterns[i], message).matched}
        i0 == CHOOSE i \in hits : \A j \in hits : i <= j
    IN  IF hits = {} THEN NoIssueId
        ELSE IssueId(re_search(patterns[i0], message).group)

bugfix_keywords ==
    << <<"fix">>, <<"bug">>, <<"issue">>, <<"problem">>, <<"error">>,
       <<"crash">>, <<"failure">>, <<"incorrect">>, <<"wrong">> >>

is_bugfix_commit(message) ==
    \E i \in 1..Len(bugfix_keywords) : Contains(Lower(message), bugfix_keywords[i])

(***************************************************************************)
(* scripts/02_extract_commits.py: inclusion filters and record expansion   *)
(***************************************************************************)
\* values of config['extraction']: keys left out take the .get defaults
ExtractionConfigs ==
    { [exclude_merges |-> TRUE],
      [exclude_merges |-> FALSE, min_files_changed |-> 2, max_files_changed |-> 2,
       min_lines_changed |-> 5, max_lines_changed |-> 100,
       include_extensions |-> << <<".py">> >>,
       exclude_paths |-> << <<"test">>, <<"doc">> >>],
      [max_files_changed |-> 1,
       include_extensions |-> << <<".rst">>, <<".py">> >>,
       exclude_paths |-> << <<"test">> >>] }

Verdict(include, reason) == [include |-> include, reason |-> reason]

\* should_include_commit with the line checks ahead of the file checks
should_include_commit_lines_first(commit_info, f) ==
    LET n_files == Len(commit_info.files_changed)
        total_lines == commit_info.insertions + commit_info.deletions
        include_exts == Get(f, "include_extensions", <<>>)
        exclude_paths == Get(f, "exclude_paths", <<>>)
    IN  IF Get(f, "exclude_merges", TRUE)
           /\ Contains(Lower(commit_info.message), <<"merge">>)
        THEN Verdict(FALSE, "merge_commit")
        ELSE IF total_lines < Get(f, "min_lines_changed", 1)
        THEN Verdict(FALSE, "too_few_lines")
        ELSE IF total_lines > Get(f, "max_lines_changed", 1000)
        THEN Verdict(FALSE, "too_many_lines")
        ELSE IF n_files < Get(f, "min_files_changed", 1)
        THEN Verdict(FALSE, "too_few_files")
        ELSE IF n_files > Get(f, "max_files_changed", 50)
        THEN Verdict(FALSE, "too_many_files")
        ELSE IF include_exts # <<>>
                /\ ~ \E i \in 1..n_files : \E e \in 1..Len(include_exts) :
                       EndsWith(commit_info.files_changed[i], include_exts[e])
        THEN Verdict(FALSE, "no_valid_extensions")
        ELSE IF exclude_paths # <<>>
                /\ \E i \in 1..n_files : \E e \in 1..Len(exclude_paths) :
                       Contains(commit_info.files_changed[i], exclude_paths[e])
        THEN Verdict(FALSE, "excluded_path")
        ELSE Verdict(TRUE, "included")

\* should_include_commit without the max_lines_changed check
should_include_commit_no_max_lines(commit_info, f) ==
    LET n_files == Len(commit_info.files_changed)
        total_lines == commit_info.insertions + commit_info.deletions
        include_exts == Get(f, "include_extensions", <<>>)
        exclude_paths == Get(f, "exclude_paths", <<>>)
    IN  IF Get(f, "exclude_merges", TRUE)
           /\ Contains(Lower(commit_info.message), <<"merge">>)
        THEN Verdict(FALSE, "merge_commit")
        ELSE IF n_files < Get(f, "min_files_changed", 1)
        THEN Verdict(FALSE, "too_few_files")
        ELSE IF n_files > Get(f, "max_files_changed", 50)
        THEN Verdict(FALSE, "too_many_files")
        ELSE IF total_lines < Get(f, "min_lines_changed", 1)
        THEN Verdict(FALSE, "too_few_lines")
        ELSE IF include_exts # <<>>
                /\ ~ \E i \in 1..n_files : \E e \in 1..Len(include_exts) :
                       EndsWith(commit_info.files_changed[i], include_exts[e])
        THEN Verdict(FALSE, "no_valid_extensions")
        ELSE IF exclude_paths # <<>>
                /\ \E i \in 1..n_files : \E e \in 1..Len(exclude_paths) :
                       Contains(commit_info.files_changed[i], exclude_paths[e])
        THEN Verdict(FALSE, "excluded_path")
        ELSE Verdict(TRUE, "included")

\* should_include_commit looking for 'merge' in the message as written
should_include_commit_case_sensitive(commit_info, f) ==
    LET n_files == Len(commit_info.files_changed)
        total_lines == commit_info.insertions + commit_info.deletions
        include_exts == Get(f, "include_extensions", <<>>)
        exclude_paths == Get(f, "exclude_paths", <<>>)
    IN  IF Get(f, "exclude_merges", TRUE)
           /\ Contains(commit_info.message, <<"merge">>)
        THEN Verdict(FALSE, "merge_commit")
        ELSE IF n_files < Get(f, "min_files_changed", 1)
        THEN Verdict(FALSE, "too_few_files")
        ELSE IF n_files > Get(f, "max_files_changed", 50)
        THEN Verdict(FALSE, "too_many_files")
        ELSE IF total_lines < Get(f, "min_lines_changed", 1)
        THEN Verdict(FALSE, "too_few_lines")
        ELSE IF total_lines > Get(f, "max_lines_changed", 1000)
        THEN Verdict(FALSE, "too_many_lines")
        ELSE IF include_exts # <<>>
                /\ ~ \E i \in 1..n_files : \E e \in 1..Len(include_exts) :
                       EndsWith(commit_info.files_changed[i], include_exts[e])
        THEN Verdict(FALSE, "no_valid_extensions")
        ELSE IF exclude_paths # <<>>
                /\ \E i \in 1..n_files : \E e \in 1..Len(exclude_paths) :
                       Contains(commit_info.files_changed[i], exclude_paths[e])
        THEN Verdict(FALSE, "excluded_path")
        ELSE Verdict(TRUE, "included")

\* lines 80-140; f is config['extraction']
should_include_commit(commit_info, f) ==
    LET n_files == Len(commit_info.files_changed)
        total_lines == commit_info.insertions + commit_info.deletions
        include_exts == Get(f, "include_extensions", <<>>)
        exclude_paths == Get(f, "exclude_paths", <<>>)
    IN  IF Get(f, "exclude_merges", TRUE)
           /\ Contains(Lower(commit_info.message), <<"merge">>)
        THEN Verdict(FALSE, "merge_commit")
        ELSE IF n_files < Get(f, "min_files_changed", 1)
        THEN Verdict(FALSE, "too_few_files")
        ELSE IF n_files > Get(f, "max_files_changed", 50)
        THEN Verdict(FALSE, "too_many_files")
        ELSE IF total_lines < Get(f, "min_lines_changed", 1)
        THEN Verdict(FALSE, "too_few_lines")
        ELSE IF total_lines > Get(f, "max_lines_changed", 1000)
        THEN Verdict(FALSE, "too_many_lines")
        ELSE IF include_exts # <<>>
                /\ ~ \E i \in 1..n_files : \E e \in 1..Len(include_exts) :
                       EndsWith(commit_info.files_changed[i], include_exts[e])
        THEN Verdict(FALSE, "no_valid_extensions")
        ELSE IF exclude_paths # <<>>
                /\ \E i \in 1..n_files : \E e \in 1..Len(exclude_paths) :
                       Contains(commit_info.files_changed[i], exclude_paths[e])
        THEN Verdict(FALSE, "excluded_path")
        ELSE Verdict(TRUE, "included")

\* line 206: filter_stats[reason] = filter_stats.get(reason, 0) + 1
Increment(stats, reason) ==
    [r \in DOMAIN stats \cup {reason} |->
        IF r = reason THEN Get(stats, reason, 0) + 1 ELSE stats[r]]

\* FileRecords that stops after the first changed file
FileRecords_first_file_only(commit_info, diff) ==
    IF commit_info.files_changed = <<>> THEN <<>>
    ELSE << [commit_sha |-> commit_info.sha,
             parent_sha |-> commit_info.parent_sha,
             commit_time |-> commit_info.commit_time,
             author |-> commit_info.author,
             author_email |-> commit_info.author_email,
             message |-> commit_info.message,
             file_path |-> commit_info.files_changed[1],
             files_changed |-> Len(commit_info.files_changed),
             insertions |-> commit_info.insertions,
             deletions |-> commit_info.deletions,
             hunks_count |-> Len(diff.hunks),
             issue_id |-> extract_issue_id(commit_info.message),
             is_bugfix |-> is_bugfix_commit(commit_info.message),
             patch_text |-> diff.raw_diff] >>

\* lines 208-238: one record per changed file
FileRecords(commit_info, diff) ==
    LET issue == extract_issue_id(commit_info.message)
        is_bugfix == is_bugfix_commit(commit_info.message)
    IN  [i \in 1..Len(commit_info.files_changed) |->
            [commit_sha |-> commit_info.sha,
             parent_sha |-> commit_info.parent_sha,
             commit_time |-> commit_info.commit_time,
             author |-> commit_info.author,
             author_email |-> commit_info.author_email,
             message |-> commit_info.message,
             file_path |-> commit_info.files_changed[i],
             files_changed |-> Len(commit_info.files_changed),
             insertions |-> commit_info.insertions,
             deletions |-> commit_info.deletions,
             hunks_count |-> Len(diff.hunks),
             issue_id |-> issue,
             is_bugfix |-> is_bugfix,
             patch_text |-> diff.raw_diff]]

\* the commit an iteration that raised never got to read
NoGitCommit == Commit(<<>>, <<>>, [insertions |-> 0, deletions |-> 0], <<>>, Alice, 0, <<>>)

NoCommit ==
    [outcome |-> "none", commit |-> NoGitCommit,
     info |-> get_commit_info(0, NoGitCommit), diff |-> get_diff(0, NoGitCommit),
     include |-> FALSE, reason |-> "none", stats_before |-> [r \in {} |-> 0],
     records_before |-> <<>>, warnings_before |-> 0]

ExtractIdle ==
    /\ xpc = "idle"
    /\ filters = [exclude_merges |-> TRUE]
    /\ total_commits = 0
    /\ nScanned = 0
    /\ lastCommit = NoCommit
    /\ records = <<>>
    /\ filter_stats = [r \in {} |-> 0]
    /\ warnings = 0

\* the state after list_commits returned the shas of the range
InitExtract ==
    /\ xpc = "list"
    /\ filters \in ExtractionConfigs
    /\ total_commits \in 0..MaxCommits
    /\ nScanned = 0
    /\ lastCommit = NoCommit
    /\ records = <<>>
    /\ filter_stats = [r \in {} |-> 0]
    /\ warnings = 0

\* lines 184-186: no commit in range, an empty table is returned
ReturnNoCommits ==
    /\ xpc = "list"
    /\ total_commits = 0
    /\ xpc' = "done"
    /\ UNCHANGED <<filters, total_commits, nScanned, lastCommit, records,
                   filter_stats, warnings>>
    /\ UNCHANGED temporalVars
    /\ UNCHANGED severityVars
    /\ UNCHANGED branchVars
    /\ UNCHANGED issueVars
    /\ UNCHANGED pagedVars

\* lines 188-192
StartLoop ==
    /\ xpc = "list"
    /\ total_commits > 0
    /\ xpc' = "loop"
    /\ UNCHANGED <<filters, total_commits, nScanned, lastCommit, records,
                   filter_stats, warnings>>
    /\ UNCHANGED temporalVars
    /\ UNCHANGED severityVars
    /\ UNCHANGED branchVars
    /\ UNCHANGED issueVars
    /\ UNCHANGED pagedVars

\* lines 194-238: one iteration in which nothing raises (the sha of a commit
\* is its place in commit_shas)
ProcessCommit ==
    /\ xpc = "loop"
    /\ nScanned < total_commits
    /\ \E commit \in Commits :
        LET commit_info == get_commit_info(nScanned + 1, commit)
            diff == get_diff(nScanned + 1, commit)
            v == should_include_commit(commit_info, filters)
        IN  /\ warnings' = warnings + (IF get_diff_warns(commit) THEN 1 ELSE 0)
            /\ filter_stats' = Increment(filter_stats, v.reason)
            /\ records' = IF v.include
                          THEN records \o FileRecords(commit_info, diff)
                          ELSE records
            /\ lastCommit' = [outcome |-> "filtered", commit |-> commit,
                              info |-> commit_info, diff |-> diff,
                              include |-> v.include, reason |-> v.reason,
                              stats_before |-> filter_stats,
                              records_before |-> records,
                              warnings_before |-> warnings]
    /\ nScanned' = nScanned + 1
    /\ UNCHANGED <<xpc, filters, total_commits>>
    /\ UNCHANGED temporalVars
    /\ UNCHANGED severityVars
    /\ UNCHANGED branchVars
    /\ UNCHANGED issueVars
    /\ UNCHANGED pagedVars

\* lines 194-200, 240-242: get_commit_info or get_diff raises (the repository
\* cannot be read); the commit is logged and skipped
SkipCommitOnError ==
    /\ xpc = "loop"
    /\ nScanned < total_commits
    /\ lastCommit' = [NoCommit EXCEPT !.outcome = "exception",
                                      !.stats_before = filter_stats,
                                      !.records_before = records,
                                      !.warnings_before = warnings]
    /\ nScanned' = nScanned + 1
    /\ UNCHANGED <<xpc, filters, total_commits, records, filter_stats, warnings>>
    /\ UNCHANGED temporalVars
    /\ UNCHANGED severityVars
    /\ UNCHANGED branchVars
    /\ UNCHANGED issueVars
    /\ UNCHANGED pagedVars

\* lines 244-263
ReturnRecords ==
    /\ xpc = "loop"
    /\ nScanned = total_commits
    /\ xpc' = "done"
    /\ UNCHANGED <<filters, total_commits, nScanned, lastCommit, records,
                   filter_stats, warnings>>
    /\ UNCHANGED temporalVars
    /\ UNCHANGED severityVars
    /\ UNCHANGED branchVars
    /\ UNCHANGED issueVars
    /\ UNCHANGED pagedVars

NextExtract ==
    ReturnNoCommits \/ StartLoop \/ ProcessCommit \/ SkipCommitOnError
        \/ ReturnRecords

(***************************************************************************)
(* Branch resolution: extract_commits up to the return of list_commits     *)
(***************************************************************************)
\* repo.active_branch when HEAD is detached (reading it raises)
Detached == "DETACHED"

BranchNames == {"master", "main", "develop"}

\* values of config['extraction'] as far as the branch is concerned
BranchConfigs ==
    { [exclude_merges |-> TRUE] } \cup
    { [branches |-> <<b, "stable">>] : b \in BranchNames \cup {"release"} }

\* lines 71-81 with the fallback tried for every absent branch
resolve_branch_any_fallback(requested, existing, active) ==
    IF requested \in existing THEN [raised |-> FALSE, branch |-> requested]
    ELSE IF "main" \in existing THEN [raised |-> FALSE, branch |-> "main"]
    ELSE IF active = Detached THEN [raised |-> TRUE, branch |-> requested]
    ELSE [raised |-> FALSE, branch |-> active]

\* lines 71-81: the branch handed to iter_commits
resolve_branch(requested, existing, active) ==
    IF requested \in existing THEN [raised |-> FALSE, branch |-> requested]
    ELSE IF requested = "master"
         THEN IF "main" \in existing THEN [raised |-> FALSE, branch |-> "main"]
              ELSE IF active = Detached
                   THEN [raised |-> TRUE, branch |-> requested]
                   ELSE [raised |-> FALSE, branch |-> active]
         ELSE [raised |-> FALSE, branch |-> requested]

\* list_commits as far as its branch goes: iter_commits raises on a revision
\* that does not exist
list_commits(requested, existing, active) ==
    LET r == resolve_branch(requested, existing, active)
    IN  IF r.raised \/ r.branch \notin existing
        THEN [raised |-> TRUE, branch |-> r.branch]
        ELSE r

\* line 168
RequestedBranch(f) == Get(f, "branches", <<"master">>)[1]

BranchIdle ==
    /\ branch = "master"
    /\ refs = {}
    /\ active_branch = Detached

InitBranch ==
    /\ xpc = "start"
    /\ filters \in BranchConfigs
    /\ total_commits = 0
    /\ nScanned = 0
    /\ lastCommit = NoCommit
    /\ records = <<>>
    /\ filter_stats = [r \in {} |-> 0]
    /\ warnings = 0
    /\ branch = RequestedBranch(filters)
    /\ refs \in SUBSET BranchNames
    /\ active_branch \in BranchNames \cup {Detached}

\* 02 lines 167-182: list_commits returns the shas of the range (possibly none)
ListCommitsReturns ==
    /\ xpc = "start"
    /\ LET r == list_commits(RequestedBranch(filters), refs, active_branch)
       IN  /\ ~r.raised
           /\ branch' = r.branch
    /\ total_commits' \in 0..MaxCommits
    /\ xpc' = "list"
    /\ UNCHANGED <<filters, nScanned, lastCommit, records, filter_stats, warnings>>
    /\ UNCHANGED <<refs, active_branch>>
    /\ UNCHANGED temporalVars
    /\ UNCHANGED severityVars
    /\ UNCHANGED issueVars
    /\ UNCHANGED pagedVars

\* 02 lines 172-177: list_commits raises and nothing in extract_commits
\* catches it
ListCommitsRaises ==
    /\ xpc = "start"
    /\ LET r == list_commits(RequestedBranch(filters), refs, active_branch)
       IN  /\ r.raised
           /\ branch' = r.branch
    /\ xpc' = "raised"
    /\ UNCHANGED <<filters, total_commits, nScanned, lastCommit, records,
                   filter_stats, warnings>>
    /\ UNCHANGED <<refs, active_branch>>
    /\ UNCHANGED temporalVars
    /\ UNCHANGED severityVars
    /\ UNCHANGED issueVars
    /\ UNCHANGED pagedVars

NextBranch == ListCommitsReturns \/ ListCommitsRaises

(***************************************************************************)
(* extract_issue_id called on a message                                    *)
(***************************************************************************)
IssueIdle ==
    /\ ipc = "idle"
    /\ commit_message = <<>>
    /\ issue_id = NoIssueId

InitIssue ==
    /\ ipc = "call"
    /\ commit_message \in IssueMessages
    /\ issue_id = NoIssueId

ExtractIssueId ==
    /\ ipc = "call"
    /\ issue_id' = extract_issue_id(commit_message)
    /\ ipc' = "returned"
    /\ UNCHANGED commit_message
    /\ UNCHANGED temporalVars
    /\ UNCHANGED severityVars
    /\ UNCHANGED extractVars
    /\ UNCHANGED branchVars
    /\ UNCHANGED pagedVars

NextIssue == ExtractIssueId

(***************************************************************************)
(* Specifications: each script is run on its own                           *)
(***************************************************************************)
(***************************************************************************)
(* etl/historic_backfill.py: rate_limit_sleep and the generator paged      *)
(***************************************************************************)
MaxLimit == 3
MaxPageItems == 2
MaxRequests == 4

\* the pages of one listing of the GitHub API
Urls == <<"page1", "page2", "page3">>

\* int(time.time()), in seconds
Now == 1000

\* bodies of 403 responses
RateLimitText == <<"API", " ", "Rate", " ", "Limit", " ", "exceeded">>
ForbiddenText == <<"Resource", " ", "not", " ", "accessible">>

\* the X-RateLimit-Reset header: absent, in the past, in the future
ResetHeaders ==
    {<<>>, [h \in {"X-RateLimit-Reset"} |-> Now - 3],
           [h \in {"X-RateLimit-Reset"} |-> Now + 100]}

\* one part of a Link header
LinkPart(target, rel) == [target |-> target, rel |-> rel]

\* the Link headers the server sends with the page u: none, one without a
\* next part, and (except on the last page) ones naming the next page
LinkHeaders(u) ==
    LET i == CHOOSE k \in 1..Len(Urls) : Urls[k] = u
        prev == LinkPart(Urls[1], "first")
    IN  {<<>>, [h \in {"link"} |-> <<prev>>]}
        \cup (IF i < Len(Urls)
              THEN {[h \in {"link"} |-> <<LinkPart(Urls[i + 1], "next")>>],
                    [h \in {"link"} |-> <<prev, LinkPart(Urls[i + 1], "next"),
                                          LinkPart(Urls[Len(Urls)], "last")>>]}
              ELSE {})

Response(status_code, text, headers, kind, n) ==
    [status_code |-> status_code, text |-> text, headers |-> headers,
     kind |-> kind, n |-> n]

\* what the server may answer to SESSION.get(u): 403 with and without the
\* rate-limit text, 404, a JSON object, a JSON list of n items
Responses(u) ==
    {Response(403, RateLimitText, h, "none", 0) : h \in ResetHeaders}
    \cup {Response(403, ForbiddenText, <<>>, "none", 0),
          Response(404, <<"Not", " ", "Found">>, <<>>, "none", 0),
          Response(200, <<>>, <<>>, "dict", 1)}
    \cup {Response(200, <<>>, h, "list", n) :
              h \in LinkHeaders(u), n \in 0..MaxPageItems}

NoResponse == Response(0, <<>>, <<>>, "none", 0)

Max(a, b) == IF a >= b THEN a ELSE b

\* lines 79-84: the seconds rate_limit_sleep sleeps for the response
rate_limit_sleep(rsp) ==
    IF rsp.status_code = 403 /\ Contains(Lower(rsp.text), <<"rate", " ", "limit">>)
    THEN IF "X-RateLimit-Reset" \in DOMAIN rsp.headers
         THEN Max(5, rsp.headers["X-RateLimit-Reset"] - Now)
         ELSE 60
    ELSE 0

\* lines 104-109: the target of the first part of the Link header that says
\* rel="next", None without one
NextLink(headers) ==
    IF "link" \notin DOMAIN headers THEN None
    ELSE LET parts == headers["link"]
             nexts == {k \in 1..Len(parts) : parts[k].rel = "next"}
         IN  IF nexts = {} THEN None
             ELSE parts[CHOOSE k \in nexts : \A j \in nexts : k <= j].target

PagedIdle ==
    /\ gpc = "idle" /\ url = None /\ params = FALSE /\ limit = 0 /\ pulled = 0
    /\ yielded = 0 /\ resp = NoResponse /\ nRequests = 0 /\ slept = 0

\* line 88: the consumer starts the generator (fetch_issues, fetch_pulls)
InitPaged ==
    /\ gpc = "loop"
    /\ url = Urls[1]
    /\ params = TRUE
    /\ limit \in 0..MaxLimit
    /\ pulled = 0
    /\ yielded = 0
    /\ resp = NoResponse
    /\ nRequests = 0
    /\ slept = 0

\* line 89: the condition of the while loop
LoopCondition == url # None /\ pulled < limit

\* line 89: the loop is left and the generator ends
LoopEnds ==
    /\ gpc = "loop"
    /\ ~ LoopCondition
    /\ gpc' = "done"
    /\ UNCHANGED <<url, params, limit, pulled, yielded, resp, nRequests, slept>>
    /\ UNCHANGED temporalVars
    /\ UNCHANGED severityVars
    /\ UNCHANGED extractVars
    /\ UNCHANGED branchVars
    /\ UNCHANGED issueVars

\* lines 90-92: the answer is a 403; rate_limit_sleep, then continue
Forbidden ==
    /\ gpc = "loop"
    /\ LoopCondition
    /\ nRequests < MaxRequests
    /\ \E rsp \in Responses(url) :
           /\ rsp.status_code = 403
           /\ resp' = rsp
           /\ slept' = slept + rate_limit_sleep(rsp)
    /\ nRequests' = nRequests + 1
    /\ UNCHANGED <<gpc, url, params, limit, pulled, yielded>>
    /\ UNCHANGED temporalVars
    /\ UNCHANGED severityVars
    /\ UNCHANGED extractVars
    /\ UNCHANGED branchVars
    /\ UNCHANGED issueVars

\* lines 90, 93: raise_for_status raises and the generator is left
RaiseForStatus ==
    /\ gpc = "loop"
    /\ LoopCondition
    /\ nRequests < MaxRequests
    /\ \E rsp \in Responses(url) :
           /\ rsp.status_code \notin {200, 403}
           /\ resp' = rsp
    /\ nRequests' = nRequests + 1
    /\ gpc' = "raised"
    /\ UNCHANGED <<url, params, limit, pulled, yielded, slept>>
    /\ UNCHANGED temporalVars
    /\ UNCHANGED severityVars
    /\ UNCHANGED extractVars
    /\ UNCHANGED branchVars
    /\ UNCHANGED issueVars

\* lines 90-97: the answer is a JSON object; it is yielded and the generator
\* returns
YieldDict ==
    /\ gpc = "loop"
    /\ LoopCondition
    /\ nRequests < MaxRequests
    /\ \E rsp \in Responses(url) :
           /\ rsp.status_code = 200
           /\ rsp.kind = "dict"
           /\ resp' = rsp
    /\ nRequests' = nRequests + 1
    /\ yielded' = yielded + 1
    /\ gpc' = "done"
    /\ UNCHANGED <<url, params, limit, pulled, slept>>
    /\ UNCHANGED temporalVars
    /\ UNCHANGED severityVars
    /\ UNCHANGED extractVars
    /\ UNCHANGED branchVars
    /\ UNCHANGED issueVars

\* lines 90-111: the answer is a JSON list; its items are yielded until the
\* limit is reached (return), else the next link is taken
YieldPage ==
    /\ gpc = "loop"
    /\ LoopCondition
    /\ nRequests < MaxRequests
    /\ \E rsp \in Responses(url) :
           /\ rsp.status_code = 200
           /\ rsp.kind = "list"
           /\ resp' = rsp
           /\ IF rsp.n >= limit - pulled
              THEN /\ yielded' = yielded + (limit - pulled)
                   /\ pulled' = limit
                   /\ gpc' = "done"
                   /\ UNCHANGED <<url, params>>
              ELSE /\ yielded' = yielded + rsp.n
                   /\ pulled' = pulled + rsp.n
                   /\ url' = NextLink(rsp.headers)
                   /\ params' = FALSE
                   /\ UNCHANGED gpc
    /\ nRequests' = nRequests + 1
    /\ UNCHANGED <<limit, slept>>
    /\ UNCHANGED temporalVars
    /\ UNCHANGED severityVars
    /\ UNCHANGED extractVars
    /\ UNCHANGED branchVars
    /\ UNCHANGED issueVars

NextPaged == LoopEnds \/ Forbidden \/ RaiseForStatus \/ YieldDict \/ YieldPage

TemporalRun ==
    InitTemporal /\ SeverityIdle /\ ExtractIdle /\ BranchIdle /\ IssueIdle /\ PagedIdle

SeverityRun ==
    InitSeverity /\ TemporalIdle /\ ExtractIdle /\ BranchIdle /\ IssueIdle /\ PagedIdle

ExtractRun ==
    InitExtract /\ TemporalIdle /\ SeverityIdle /\ BranchIdle /\ IssueIdle /\ PagedIdle

BranchRun ==
    InitBranch /\ TemporalIdle /\ SeverityIdle /\ IssueIdle /\ PagedIdle

IssueRun ==
    InitIssue /\ TemporalIdle /\ SeverityIdle /\ ExtractIdle /\ BranchIdle /\ PagedIdle

RawTableRun ==
    InitRawTable /\ SeverityIdle /\ ExtractIdle /\ BranchIdle /\ IssueIdle /\ PagedIdle

SpecTemporal == TemporalRun /\ [][NextTemporal]_vars

SpecSeverity == SeverityRun /\ [][NextSeverity]_vars

SpecExtract == ExtractRun /\ [][NextExtract]_vars

SpecBranch == BranchRun /\ [][NextBranch]_vars

SpecIssue == IssueRun /\ [][NextIssue]_vars

PagedRun ==
    InitPaged /\ TemporalIdle /\ SeverityIdle /\ ExtractIdle /\ BranchIdle /\ IssueIdle

SpecRawTable == RawTableRun /\ [][NextRawTable]_vars

SpecPaged == PagedRun /\ [][NextPaged]_vars

Init == TemporalRun \/ SeverityRun \/ ExtractRun \/ BranchRun \/ IssueRun
            \/ RawTableRun \/ PagedRun

Next == NextTemporal \/ NextSeverity \/ NextExtract \/ NextBranch \/ NextIssue
            \/ NextRawTable \/ NextPaged

Spec == Init /\ [][Next]_vars

(***************************************************************************)
(* Properties of the temporal aggregator (04)                              *)
(***************************************************************************)
\* a row of df without its feature columns: the row of tInput it came from
InputRow(r) ==
    [rid |-> r.rid, file_path |-> r.file_path, commit_time |-> r.commit_time,
     severity_label |-> r.severity_label]

FeaturesOf(r) == <<r.file_age_days, r.churn_60d, r.recent_severe_30d>>

\* the rows of the input that share R's file and are strictly older than R
StrictlyEarlier(R) ==
    {r \in Range(tInput) :
        r.file_path = R.file_path /\ r.commit_time < R.commit_time}

\* the features the program computes for the row with identity rid when it is
\* run on the table t, under every placement of equal timestamps
RerunFeatures(t, rid) ==
    UNION {{FeaturesOf(RowFeatures(d, j)) : j \in {j \in 1..Len(d) : d[j].rid = rid}} :
           d \in sort_values(t)}

\* the input table restricted to the rows of S
Restrict(S) == SelectSeq(tInput, LAMBDA r : r \in S)

\* C1: no look-ahead.  In the output table the three features of every record
\* R are what the program computes from R and the same-file records strictly
\* older than R alone, and a rerun on the input extended by any record x with
\* x.commit_time >= R.commit_time gives R the same three features.
C1_NoLookAhead ==
    tpc = "done" =>
        /\ \A k \in 1..Len(df) :
               RerunFeatures(Restrict(StrictlyEarlier(df[k]) \cup {InputRow(df[k])}),
                             df[k].rid)
                   = {FeaturesOf(df[k])}
        /\ \A x \in RowData :
               LET reruns == sort_values(Append(tInput, WithRid(x, Len(tInput) + 1)))
               IN  \A k \in 1..Len(df) :
                       x.commit_time >= df[k].commit_time =>
                           \A d \in reruns : \A j \in 1..Len(d) :
                               d[j].rid = df[k].rid =>
                                   FeaturesOf(RowFeatures(d, j)) = FeaturesOf(df[k])

\* C1 witness: a finished run in which a record R with non-zero age, churn and
\* recent-severe count shares its file with a record that is not older than R
C1_Witness ==
    /\ tpc = "done"
    /\ \E k, j \in 1..Len(df) :
        /\ k # j
        /\ df[j].file_path = df[k].file_path
        /\ df[j].commit_time >= df[k].commit_time
        /\ df[k].file_age_days > 0
        /\ df[k].churn_60d > 0
        /\ df[k].recent_severe_30d > 0

\* C2: churn_60d of every computed record R is the number of same-file input
\* records with R.commit_time - 60 days <= t < R.commit_time.
C2_Churn60d ==
    \A k \in 1..Len(df) :
        k < idx =>
            df[k].churn_60d =
                Cardinality({r \in Range(tInput) :
                    /\ r.file_path = df[k].file_path
                    /\ df[k].commit_time - 60 * TicksPerDay <= r.commit_time
                    /\ r.commit_time < df[k].commit_time})

\* C2 witness: one file changed at days 0, 10 and 70; at day 70 the churn is 1
\* (the day-10 record, exactly 60 days older) and the age is 70
C2_Witness ==
    /\ tpc = "done"
    /\ Len(df) = 3
    /\ \A k \in 1..3 : df[k].file_path = "a.py"
    /\ df[1].commit_time = 0
    /\ df[2].commit_time = 10 * TicksPerDay
    /\ df[3].commit_time = 70 * TicksPerDay
    /\ df[3].churn_60d = 1
    /\ df[3].file_age_days = 70

C4_RecentSevere30d ==
    \A k \in 1..Len(df) :
        k < idx =>
            df[k].recent_severe_30d =
                Cardinality({r \in Range(tInput) :
                    /\ r.file_path = df[k].file_path
                    /\ r.severity_label = "high"
                    /\ df[k].commit_time - 30 * TicksPerDay <= r.commit_time
                    /\ r.commit_time < df[k].commit_time})

\* C4 witness: a record with a high-labelled and a not-high-labelled same-file
\* record in its 30-day window counts only the first
C4_Witness ==
    /\ tpc = "done"
    /\ \E k \in 1..Len(df) :
        /\ df[k].recent_severe_30d = 1
        /\ \E r \in StrictlyEarlier(df[k]) :
               /\ r.severity_label # "high"
               /\ df[k].commit_time - 30 * TicksPerDay <= r.commit_time

\* C5 as stated: ties are broken by stream order, so every same-file record
\* at an earlier position of the sorted stream and inside the window counts
\* as prior, equal commit_time included.
C5_TiesByStreamOrder ==
    tpc = "done" =>
        \A j \in 1..Len(df) :
            df[j].churn_60d =
                Cardinality({i \in 1..(j - 1) :
                    /\ df[i].file_path = df[j].file_path
                    /\ df[j].commit_time - 60 * TicksPerDay <= df[i].commit_time})

\* C5 as amended: of two same-file records of equal commit_time neither is a
\* prior change of the other, whatever their positions in the sorted stream:
\* a rerun on the input without one of them gives the other the same features.
C5_TiesNeverCount ==
    tpc = "done" =>
        \A i, j \in 1..Len(df) :
            (/\ i # j
             /\ df[i].file_path = df[j].file_path
             /\ df[i].commit_time = df[j].commit_time)
            => RerunFeatures(Restrict(Range(tInput) \ {InputRow(df[i])}), df[j].rid)
                   = {FeaturesOf(df[j])}

\* C5 witness: two same-file records of equal commit_time follow an older
\* one; the later of the two in the stream has the churn and age of the first
C5_Witness ==
    /\ tpc = "done"
    /\ Len(df) = 3
    /\ df[1].file_path = df[2].file_path
    /\ df[2].file_path = df[3].file_path
    /\ df[1].commit_time < df[2].commit_time
    /\ df[2].commit_time = df[3].commit_time
    /\ df[3].churn_60d = 1
    /\ FeaturesOf(df[3]) = FeaturesOf(df[2])

(***************************************************************************)
(* Properties of the severity fusion (03)                                  *)
(***************************************************************************)
\* the three signals of the row, each with severity "None" when absent
KeywordSignal == classify_by_keywords(row.message.text, config)
FilePathSignal == classify_by_file_path(row.file_path)
ChangeSizeSignal == classify_by_change_size(row.insertions, row.deletions)

Votes(sig, sev) == IF sig.severity = sev THEN sig.confidence ELSE 0

\* the accumulated score of a severity: the confidences of the signals voting
\* for it
Score(sev) ==
    Votes(KeywordSignal, sev) + Votes(FilePathSignal, sev)
        + Votes(ChangeSizeSignal, sev)

\* the number of signals that are present
PresentCount ==
    Cardinality({s \in {"keyword", "file_path", "change_size"} :
        \/ s = "keyword" /\ KeywordSignal.severity # "None"
        \/ s = "file_path"
        \/ s = "change_size" /\ ChangeSizeSignal.severity # "None"})

\* high before medium before low
Rank(sev) == CASE sev = "high" -> 1 [] sev = "medium" -> 2 [] sev = "low" -> 3

\* C6: the label is a severity of the largest accumulated score, and among
\* several such severities the first in the order high, medium, low; a row
\* whose only present signal is the file-path signal high (0.60) is labelled
\* high.
C6_LabelIsFirstLargest ==
    (spc = "done" /\ result.status = "returned") =>
        /\ result.severity_label \in Severities
        /\ \A s \in Severities :
               /\ Score(s) <= Score(result.severity_label)
               /\ Rank(s) < Rank(result.severity_label)
                      => Score(s) < Score(result.severity_label)
        /\ (/\ PresentCount = 1
            /\ FilePathSignal.severity = "high"
            /\ FilePathSignal.confidence = 60)
           => result.severity_label = "high"

\* C6 witness: keyword low (0.60) against file-path high (0.60), a tie of the
\* two largest scores, labelled high
C6_Witness ==
    /\ spc = "done"
    /\ result.status = "returned"
    /\ KeywordSignal.severity = "low"
    /\ FilePathSignal.severity = "high"
    /\ ChangeSizeSignal.severity = "None"
    /\ Score("high") = Score("low")
    /\ result.severity_label = "high"

\* C7: the confidence is the winner's accumulated score over the number of
\* present signals; keyword high + file-path high + size high give 1.85/3,
\* which is 0.6167 to four places, and a lone file-path high gives 0.60/1.
C7_ConfidenceOverPresent ==
    (spc = "done" /\ result.status = "returned") =>
        LET c == result.severity_confidence
        IN  /\ c.num = Score(result.severity_label)
            /\ c.den = PresentCount
            /\ (/\ KeywordSignal.severity = "high"
                /\ FilePathSignal.severity = "high"
                /\ ChangeSizeSignal.severity = "high")
               => /\ c.num = 185 /\ c.den = 3
                  /\ 200 * c.num - 2 * 6167 * c.den <= c.den
                  /\ 2 * 6167 * c.den - 200 * c.num <= c.den
            /\ (PresentCount = 1 /\ FilePathSignal.severity = "high")
               => c.num = 60 /\ c.den = 1

\* C7 witness: two signals are present and only one of them voted for the
\* winner, so the divisor is neither 3 nor the number of winning votes
C7_Witness ==
    /\ spc = "done"
    /\ result.status = "returned"
    /\ PresentCount = 2
    /\ KeywordSignal.severity = "high"
    /\ FilePathSignal.severity = "low"
    /\ result.severity_label = "high"
    /\ result.severity_confidence = [num |-> 85, den |-> 2]

\* C8: for every input row assign_severity returns, with a label among low,
\* medium, high, a confidence within [0,1] and at least one present signal.
C8_AlwaysReturns ==
    spc = "done" =>
        /\ result.status = "returned"
        /\ result.severity_label \in Severities
        /\ result.severity_confidence.den >= 1
        /\ result.severity_confidence.num >= 0
        /\ result.severity_confidence.num <= 100 * result.severity_confidence.den

(***************************************************************************)
(* Properties of the inclusion filters (02)                                *)
(***************************************************************************)
FilterOrder ==
    <<"merge_commit", "too_few_files", "too_many_files", "too_few_lines",
      "too_many_lines", "no_valid_extensions", "excluded_path">>

\* whether the commit c fails the filter called name under the settings f,
\* each filter taken on its own
FailsFilter(name, c, f) ==
    LET files == Range(c.files_changed)
        lines == c.insertions + c.deletions
        exts == Range(Get(f, "include_extensions", <<>>))
        excluded == Range(Get(f, "exclude_paths", <<>>))
    IN  CASE name = "merge_commit" ->
                 /\ Get(f, "exclude_merges", TRUE)
                 /\ \E i \in 1..Len(c.message) : LowerToken(c.message[i]) = "merge"
          [] name = "too_few_files" ->
                 Cardinality(files) < Get(f, "min_files_changed", 1)
          [] name = "too_many_files" ->
                 Cardinality(files) > Get(f, "max_files_changed", 50)
          [] name = "too_few_lines" -> lines < Get(f, "min_lines_changed", 1)
          [] name = "too_many_lines" -> lines > Get(f, "max_lines_changed", 1000)
          [] name = "no_valid_extensions" ->
                 /\ exts # {}
                 /\ \A p \in files : \A e \in exts : ~ EndsWith(p, e)
          [] name = "excluded_path" ->
                 /\ excluded # {}
                 /\ \E p \in files : \E e \in excluded : Contains(p, e)

FailedFilters(c, f) == {i \in 1..Len(FilterOrder) : FailsFilter(FilterOrder[i], c, f)}

\* C9: a commit is accepted exactly when it fails none of the filters, each
\* evaluated on its own, so the outcome does not depend on the order of
\* evaluation.
C9_AcceptIffAllPass ==
    lastCommit.outcome = "filtered" =>
        (lastCommit.include <=> FailedFilters(lastCommit.info, filters) = {})

\* C9 witness: a commit that passes the first filters and fails two later ones
\* has been rejected
C9_Witness ==
    /\ lastCommit.outcome = "filtered"
    /\ ~ lastCommit.include
    /\ FailedFilters(lastCommit.info, filters) = {5, 7}

\* C10: the reason of a rejected commit is the first failing filter in the
\* fixed order, the reason of an accepted commit is 'included', and
\* filter_stats has grown by one for that reason and for no other.
C10_ReasonIsFirstFailing ==
    lastCommit.outcome = "filtered" =>
        LET failed == FailedFilters(lastCommit.info, filters)
            expected ==
                IF failed = {} THEN "included"
                ELSE FilterOrder[CHOOSE i \in failed : \A j \in failed : i <= j]
        IN  /\ lastCommit.reason = expected
            /\ lastCommit.include <=> lastCommit.reason = "included"
            /\ DOMAIN filter_stats = DOMAIN lastCommit.stats_before \cup {expected}
            /\ \A r \in DOMAIN filter_stats :
                   filter_stats[r] =
                       Get(lastCommit.stats_before, r, 0)
                           + (IF r = expected THEN 1 ELSE 0)

\* C10 witness: the second commit of a run fails too_many_files and
\* too_few_lines, is counted under too_many_files, and the first commit's
\* count is kept
C10_Witness ==
    /\ lastCommit.outcome = "filtered"
    /\ nScanned = 2
    /\ FailedFilters(lastCommit.info, filters) = {3, 4}
    /\ lastCommit.reason = "too_many_files"
    /\ DOMAIN filter_stats = {"included", "too_many_files"}
    /\ filter_stats["too_many_files"] = 1
    /\ filter_stats["included"] = 1

(***************************************************************************)
(* Properties of the record expansion (02) and the diff parser (git_ops)   *)
(***************************************************************************)
\* the records the last loop iteration appended
Emitted == SubSeq(records, Len(lastCommit.records_before) + 1, Len(records))

CommitLevelFields ==
    {"commit_sha", "parent_sha", "commit_time", "author", "author_email",
     "message", "files_changed", "insertions", "deletions", "issue_id",
     "is_bugfix"}

CommitLevel(rec) == [f \in CommitLevelFields |-> rec[f]]

Accepted == lastCommit.outcome = "filtered" /\ lastCommit.include

\* C11: an accepted commit with k changed files appends exactly k records,
\* one per changed file, with pairwise distinct file_path and the same
\* commit-level fields (files_changed being k); a rejected commit and a
\* commit whose processing raised append none.
C11_OneRecordPerFile ==
    lastCommit.outcome # "none" =>
        /\ SubSeq(records, 1, Len(lastCommit.records_before)) = lastCommit.records_before
        /\ IF Accepted
           THEN LET k == Len(lastCommit.commit.files)
                IN  /\ Len(Emitted) = k
                    /\ {Emitted[i].file_path : i \in 1..k} = Range(lastCommit.commit.files)
                    /\ \A i, j \in 1..k :
                          /\ i # j => Emitted[i].file_path # Emitted[j].file_path
                          /\ CommitLevel(Emitted[i]) = CommitLevel(Emitted[j])
                    /\ \A i \in 1..k :
                          /\ Emitted[i].files_changed = k
                          /\ Emitted[i].commit_sha = nScanned
           ELSE records = lastCommit.records_before

\* C11 witness: the second commit of a run is accepted with three changed
\* files after an accepted first commit, and three records were appended
C11_Witness ==
    /\ Accepted
    /\ nScanned = 2
    /\ lastCommit.records_before # <<>>
    /\ Len(lastCommit.commit.files) = 3
    /\ Len(Emitted) = 3

\* the hunks of a diff that belong to the file at path
HunksOfFile(diff, path) ==
    {h \in 1..Len(diff.hunks) : diff.hunks[h].file_path = path}

RECURSIVE SumHunksCount(_, _)
SumHunksCount(recs, i) ==
    IF i > Len(recs) THEN 0 ELSE recs[i].hunks_count + SumHunksCount(recs, i + 1)

\* C12: the hunks_count of a record is the number of parsed hunks of its own
\* file_path, so the hunks_count values of a commit's records add up to the
\* number of hunks of the commit's diff.
C12_HunksCountPerFile ==
    Accepted =>
        /\ \A i \in 1..Len(Emitted) :
              Emitted[i].hunks_count =
                  Cardinality(HunksOfFile(lastCommit.diff, Emitted[i].file_path))
        /\ SumHunksCount(Emitted, 1) = Len(lastCommit.diff.hunks)

\* C13: a commit whose processing raised appends no record and is counted
\* once in filter_stats under a reason that is neither a filter reason nor
\* 'included'.
C13_FailedCommitCounted ==
    lastCommit.outcome = "exception" =>
        /\ records = lastCommit.records_before
        /\ \E r \in DOMAIN filter_stats :
              /\ r \notin Range(FilterOrder) \cup {"included"}
              /\ filter_stats[r] = Get(lastCommit.stats_before, r, 0) + 1

\* C14: a commit with a parent whose diff text is empty or white space gets
\* no hunks and no warning; one whose diff text the parser rejects gets no
\* hunks and one warning; in both cases the iteration completes, the filters
\* decide as for any other commit and an accepted commit's records carry
\* hunks_count 0.
C14_ParseFailureIsEmpty ==
    (lastCommit.outcome = "filtered" /\ lastCommit.commit.parents # <<>>) =>
        LET text == lastCommit.commit.diff_text
            blank == \A i \in 1..Len(text) : text[i].k = "blank"
            rejected == ~blank /\ ~PatchSet(text).ok
        IN  /\ blank => /\ lastCommit.diff.hunks = <<>>
                        /\ warnings = lastCommit.warnings_before
            /\ rejected => /\ lastCommit.diff.hunks = <<>>
                           /\ warnings = lastCommit.warnings_before + 1
            /\ (blank \/ rejected) =>
                  /\ lastCommit.include <=>
                         FailedFilters(lastCommit.info, filters) = {}
                  /\ lastCommit.include =>
                         /\ Len(Emitted) = Len(lastCommit.commit.files)
                         /\ \A i \in 1..Len(Emitted) : Emitted[i].hunks_count = 0

\* C14 witness: a commit whose diff the parser rejected after a hunk header
\* was accepted, two records without hunks were appended and one warning
\* was printed
C14_Witness ==
    /\ Accepted
    /\ ~ PatchSet(lastCommit.commit.diff_text).ok
    /\ Len(Emitted) = 2
    /\ Emitted[1].hunks_count = 0
    /\ warnings = lastCommit.warnings_before + 1

(***************************************************************************)
(* Properties of the branch resolution (git_ops, 02)                       *)
(***************************************************************************)
\* the branch the claim names for a request, from the request, the existing
\* revisions and the active branch alone
NamedBranch ==
    LET requested == Get(filters, "branches", <<"master">>)[1]
    IN  IF requested \in refs THEN requested
        ELSE IF requested # "master" THEN requested
        ELSE IF "main" \in refs THEN "main"
        ELSE active_branch

\* C15: the branch walked is the requested one when it exists; when it is
\* absent and is 'master', 'main' if that exists and otherwise the active
\* branch; an absent branch of any other name gets no fallback.  When the
\* branch so named does not exist the call ends in an error that leaves
\* extract_commits, and is never turned into an empty list of commits.
C15_BranchResolution ==
    xpc # "start" =>
        IF NamedBranch \in refs
        THEN xpc = "list" /\ branch = NamedBranch
        ELSE xpc = "raised"

\* C15 witness: 'master' was requested by default, neither it nor 'main'
\* exists, and the commits of the active branch 'develop' were listed
C15_Witness ==
    /\ xpc = "list"
    /\ "branches" \notin DOMAIN filters
    /\ refs = {"develop"}
    /\ active_branch = "develop"
    /\ branch = "develop"
    /\ total_commits = MaxCommits

(***************************************************************************)
(* Properties of the issue reference (02)                                  *)
(***************************************************************************)
\* token i is followed by a digit
DigitFollows(i) ==
    i + 1 <= Len(commit_message) /\ commit_message[i + 1] \in DigitTokens

\* the places of the message where '#<digits>' and 'GH-<digits>' (in either
\* case) start
HashPlaces == {i \in 1..Len(commit_message) : commit_message[i] = "#" /\ DigitFollows(i)}
GhPlaces ==
    {i \in 1..Len(commit_message) :
        commit_message[i] \in {"GH-", "gh-"} /\ DigitFollows(i)}

\* the places where '<verb> #<digits>' starts: a closing verb in any case,
\* white space, then '#<digits>'
VerbPlaces ==
    {i \in 1..Len(commit_message) :
        /\ commit_message[i] \in {"Fixes", "fixes", "FIXES"}
        /\ \E h \in HashPlaces :
              /\ h >= i + 2
              /\ \A k \in (i + 1)..(h - 1) : commit_message[k] \in {" ", "\n"}}

LeftMost(S) == CHOOSE i \in S : \A j \in S : i <= j

\* C19: the reference returned is the digit group of '#<digits>' when that
\* matches anywhere, else of 'GH-<digits>' when that matches, else of
\* '<verb> #<digits>', wherever the other patterns match in the message;
\* None is returned exactly when none of the three matches.
C19_FirstPatternWins ==
    ipc = "returned" =>
        /\ issue_id.none <=> (HashPlaces = {} /\ GhPlaces = {} /\ VerbPlaces = {})
        /\ HashPlaces # {} =>
              issue_id = IssueId(DigitRun(commit_message, LeftMost(HashPlaces) + 1))
        /\ (HashPlaces = {} /\ GhPlaces # {}) =>
              issue_id = IssueId(DigitRun(commit_message, LeftMost(GhPlaces) + 1))

\* C19 witness: 'GH-7#12' returns 12 although GH-7 comes first in the message
C19_Witness ==
    /\ ipc = "returned"
    /\ commit_message = <<"GH-", "7", "#", "12">>
    /\ issue_id = IssueId(<<"12">>)

(***************************************************************************)
(* Properties of the merge filter (02)                                     *)
(***************************************************************************)
\* the message of the commit, in any case, has the word 'merge' in it
SaysMerge(commit) ==
    \E i \in 1..Len(commit.message) : commit.message[i] \in {"merge", "Merge", "MERGE"}

\* C20: a commit is rejected as a merge exactly when exclude_merges is on
\* (the default) and its lower-cased message contains 'merge'; how many
\* parents the commit has makes no difference.
C20_MergeFilterByMessage ==
    lastCommit.outcome = "filtered" =>
        /\ lastCommit.reason = "merge_commit" <=>
              /\ "exclude_merges" \in DOMAIN filters => filters.exclude_merges
              /\ SaysMerge(lastCommit.commit)
        /\ \A other \in Commits :
              (/\ other.message = lastCommit.commit.message
               /\ other.files = lastCommit.commit.files
               /\ other.insertions = lastCommit.commit.insertions
               /\ other.deletions = lastCommit.commit.deletions)
              => should_include_commit(get_commit_info(nScanned, other), filters)
                     = [include |-> lastCommit.include, reason |-> lastCommit.reason]

\* C20 witness: a commit with two parents and no 'merge' in its message was
\* accepted with merges excluded
C20_Witness ==
    /\ Accepted
    /\ Len(lastCommit.commit.parents) = 2
    /\ ~ SaysMerge(lastCommit.commit)
    /\ "exclude_merges" \notin DOMAIN filters
    /\ Len(Emitted) = 1

(***************************************************************************)
(* Properties of the three severity signals (03)                           *)
(***************************************************************************)
Returned == spc = "done" /\ result.status = "returned"

\* the reasons the result lists, in the order of the signals
ReasonNames == [i \in 1..Len(result.severity_reasons) |-> result.severity_reasons[i].reason]

\* some keyword configured for the severity occurs in the lower-cased message
KeywordOccurs(sev) ==
    /\ sev \in DOMAIN config
    /\ \E kw \in Range(config[sev]) :
          \E i \in 0..(Len(row.message.text) - Len(kw)) :
              \A j \in 1..Len(kw) : LowerToken(row.message.text[i + j]) = kw[j]

\* C16: the keyword signal is the first of high, medium, low one of whose
\* keywords occurs in the lower-cased message, with confidence 0.85, 0.70,
\* 0.60; when no keyword occurs the signal is absent: it adds to no score
\* and is not counted among the signals.
C16_KeywordSignal ==
    Returned =>
        /\ KeywordOccurs("high") =>
              KeywordSignal.severity = "high" /\ KeywordSignal.confidence = 85
        /\ (~KeywordOccurs("high") /\ KeywordOccurs("medium")) =>
              KeywordSignal.severity = "medium" /\ KeywordSignal.confidence = 70
        /\ (~KeywordOccurs("high") /\ ~KeywordOccurs("medium") /\ KeywordOccurs("low")) =>
              KeywordSignal.severity = "low" /\ KeywordSignal.confidence = 60
        /\ (\E sev \in Severities : KeywordOccurs(sev)) <=> Head(ReasonNames) = "keyword"
        /\ (\A sev \in Severities : ~KeywordOccurs(sev)) =>
              /\ KeywordSignal.severity = "None"
              /\ result.severity_confidence.num =
                     Votes(FilePathSignal, result.severity_label)
                         + Votes(ChangeSizeSignal, result.severity_label)
              /\ result.severity_confidence.den = Len(ReasonNames)
              /\ result.severity_confidence.den \in {1, 2}

\* C16 witness: a message with a low keyword ahead of a high keyword gave
\* the keyword signal high
C16_Witness ==
    /\ Returned
    /\ row.message = Text(<<"typo", "after", "CRASH">>)
    /\ KeywordOccurs("high") /\ KeywordOccurs("low")
    /\ KeywordSignal.severity = "high"
    /\ Head(ReasonNames) = "keyword"

\* the patterns of a family that occur in the lower-cased path
Occurring(family) ==
    {k \in 1..Len(family) :
        \E i \in 0..(Len(row.file_path) - Len(family[k])) :
            \A j \in 1..Len(family[k]) : LowerToken(row.file_path[i + j]) = family[k][j]}

\* C17: the file-path signal is high 0.60 when a high pattern occurs in the
\* lower-cased path, else medium 0.50 when a medium pattern occurs, else
\* low 0.70 when a low pattern occurs, else medium 0.30; its reason names
\* the first pattern, in the family's list, that occurs.
C17_FilePathSignal ==
    Returned =>
        LET H == Occurring(high_severity_patterns)
            M == Occurring(medium_severity_patterns)
            L == Occurring(low_severity_patterns)
            expected ==
                IF H # {}
                THEN [severity |-> "high", confidence |-> 60, reason |-> "critical_file",
                      pattern |-> high_severity_patterns[LeftMost(H)]]
                ELSE IF M # {}
                THEN [severity |-> "medium", confidence |-> 50, reason |-> "core_file",
                      pattern |-> medium_severity_patterns[LeftMost(M)]]
                ELSE IF L # {}
                THEN [severity |-> "low", confidence |-> 70, reason |-> "non_critical",
                      pattern |-> low_severity_patterns[LeftMost(L)]]
                ELSE [severity |-> "medium", confidence |-> 30, reason |-> "unknown_file",
                      pattern |-> <<>>]
        IN  /\ FilePathSignal = expected
            /\ \E i \in 1..Len(result.severity_reasons) :
                  result.severity_reasons[i] =
                      [reason |-> expected.reason, pattern |-> expected.pattern]

\* C17 witness: a test file under an auth directory, matching a high and a
\* low pattern, got the signal high with the reason critical_file:auth
C17_Witness ==
    /\ Returned
    /\ row.file_path = <<"salt/", "Auth", "test", ".py">>
    /\ Occurring(low_severity_patterns) # {}
    /\ FilePathSignal.severity = "high"
    /\ \E i \in 1..Len(result.severity_reasons) :
          result.severity_reasons[i] = [reason |-> "critical_file", pattern |-> <<"auth">>]

\* C18: with total = insertions + deletions, the change-size signal is high
\* 0.40 above 500, medium 0.35 above 200 up to 500, low 0.50 below 5, and
\* absent from 5 to 200, when it is not counted among the signals.
C18_ChangeSizeSignal ==
    Returned =>
        LET total == row.insertions + row.deletions
            absent == 5 <= total /\ total <= 200
        IN  /\ total > 500 =>
                  ChangeSizeSignal.severity = "high" /\ ChangeSizeSignal.confidence = 40
            /\ (200 < total /\ total <= 500) =>
                  ChangeSizeSignal.severity = "medium" /\ ChangeSizeSignal.confidence = 35
            /\ total < 5 =>
                  ChangeSizeSignal.severity = "low" /\ ChangeSizeSignal.confidence = 50
            /\ absent => ChangeSizeSignal.severity = "None"
            /\ absent <=>
                  ReasonNames[Len(ReasonNames)]
                      \notin {"very_large_change", "large_change", "tiny_change"}
            /\ absent =>
                  /\ result.severity_confidence.den = Len(ReasonNames)
                  /\ result.severity_confidence.num =
                         Votes(KeywordSignal, result.severity_label)
                             + Votes(FilePathSignal, result.severity_label)

\* C18 witness: a change of exactly 200 lines gave no size signal and the
\* confidence was divided by the two signals left
C18_Witness ==
    /\ Returned
    /\ row.insertions + row.deletions = 200
    /\ ChangeSizeSignal.severity = "None"
    /\ KeywordSignal.severity # "None"
    /\ result.severity_confidence.den = 2

(***************************************************************************)
(* Properties of the reasons list (03)                                     *)
(***************************************************************************)
\* the justification the claim expects of each signal of the row, << >> for
\* an absent one
KeywordReason ==
    IF \E sev \in Severities : KeywordOccurs(sev) THEN <<"keyword">> ELSE <<>>

FilePathReason ==
    IF Occurring(high_severity_patterns) # {} THEN <<"critical_file">>
    ELSE IF Occurring(medium_severity_patterns) # {} THEN <<"core_file">>
    ELSE IF Occurring(low_severity_patterns) # {} THEN <<"non_critical">>
    ELSE <<"unknown_file">>

ChangeSizeReason ==
    LET total == row.insertions + row.deletions
    IN  IF total > 500 THEN <<"very_large_change">>
        ELSE IF total > 200 THEN <<"large_change">>
        ELSE IF total < 5 THEN <<"tiny_change">>
        ELSE <<>>

\* C21: severity_reasons lists the justification of every present signal,
\* one entry each, in the order message-keyword, file-path, change-size; an
\* absent signal has no entry, so the number of entries is the divisor of
\* the confidence.
C21_ReasonsInEvaluationOrder ==
    Returned =>
        /\ ReasonNames = KeywordReason \o FilePathReason \o ChangeSizeReason
        /\ Len(result.severity_reasons) = result.severity_confidence.den

\* C21 witness: the three signals are present and the reasons are keyword,
\* critical_file, tiny_change in that order
C21_Witness ==
    /\ Returned
    /\ ReasonNames = <<"keyword", "critical_file", "tiny_change">>
    /\ result.severity_confidence.den = 3

(***************************************************************************)
(* Properties of the temporal aggregator on raw tables (04)                *)
(***************************************************************************)
\* the records of the input whose commit_time cell is not a timestamp
CannotParse(r) == r.commit_time \in {EmptyCell, Unparseable}

UnparsedRids == {r.rid : r \in {q \in Range(tInput) : CannotParse(q)}}

\* the input table without those records
ParsedOnly == SelectSeq(tInput, LAMBDA r : ~ CannotParse(r))

\* the rows of df whose features the loop has already computed
ComputedRows == 1..(IF idx - 1 < Len(df) THEN idx - 1 ELSE Len(df))

\* a record with an unparseable commit_time influences no other record: the
\* features of every other record are those of a run without such records
C22_OthersNotInfluenced ==
    tpc \in {"loop", "done"} =>
        \A k \in ComputedRows :
            df[k].rid \notin UnparsedRids =>
                FeaturesOf(df[k]) \in RerunFeatures(ParsedOnly, df[k].rid)

\* C22: a record whose commit_time cannot be parsed as a timestamp is
\* rejected before any window is computed: it is not a row of the table the
\* loop works on, so no feature is computed from a null time, and the
\* features of the other records are not influenced by it.
C22_UnparseableRejected ==
    /\ tpc \in {"loop", "done"} =>
           \A k \in 1..Len(df) : df[k].rid \notin UnparsedRids
    /\ C22_OthersNotInfluenced

\* a finished run whose output holds a row with a null time
C22_NullTimeRowComputed ==
    /\ tpc = "done"
    /\ \E k \in 1..Len(df) :
           /\ df[k].commit_time = NaT
           /\ FeaturesOf(df[k]) = <<0, 0, 0>>

(***************************************************************************)
(* Properties of the window lengths (04)                                   *)
(***************************************************************************)
\* the window lengths, in days, a caller may ask for: the defaults and one
\* other choice
CallerWindows == {[W |-> 60, V |-> 30], [W |-> 30, V |-> 10]}

\* the same-file input records in the window of days days that ends just
\* before R
InWindow(R, days) ==
    {r \in Range(tInput) :
        /\ r.file_path = R.file_path
        /\ R.commit_time - days * TicksPerDay <= r.commit_time
        /\ r.commit_time < R.commit_time}

\* C23: the window lengths W and V are parameters of compute_temporal_features
\* with defaults 60 and 30 days: whichever lengths the caller asks for, the
\* churn and the recent-severe count of every computed record are counted
\* over windows of those lengths.
C23_WindowsConfigurable ==
    \A w \in CallerWindows :
        \A k \in 1..Len(df) :
            k < idx =>
                /\ df[k].churn_60d = Cardinality(InWindow(df[k], w.W))
                /\ df[k].recent_severe_30d =
                       Cardinality({r \in InWindow(df[k], w.V) :
                                       r.severity_label = "high"})

(***************************************************************************)
(* Properties of get_diff and split_hunks (git_ops)                        *)
(***************************************************************************)
\* the commit of the last iteration went through get_diff and has no parent
RootCommitProcessed ==
    lastCommit.outcome = "filtered" /\ lastCommit.commit.parents = <<>>

\* C24: for a commit with zero parents get_diff returns an empty Diff (no
\* hunks, no changed files, insertions = 0, deletions = 0, empty raw diff,
\* absent parent identifier) and the diff parser is not invoked: nothing is
\* parsed and no parse warning is printed, whatever the commit changes.
C24_RootCommitEmptyDiff ==
    RootCommitProcessed =>
        /\ lastCommit.diff.hunks = <<>>
        /\ lastCommit.diff.files_changed = <<>>
        /\ lastCommit.diff.insertions = 0
        /\ lastCommit.diff.deletions = 0
        /\ lastCommit.diff.raw_diff = <<>>
        /\ lastCommit.diff.parent_sha = None
        /\ warnings = lastCommit.warnings_before

\* C24 witness: a processed root commit that changes a file and lines, and
\* whose diff text the parser would have refused
C24_Witness ==
    /\ RootCommitProcessed
    /\ lastCommit.commit.files # <<>>
    /\ lastCommit.commit.insertions > 0
    /\ ~ PatchSet(lastCommit.commit.diff_text).ok
    /\ lastCommit.diff.hunks = <<>>

\* the file and the old start of every `@@` block of a diff text, in the order
\* the blocks appear: the file of a block is the last file header before it
RECURSIVE HunkPlacesFrom(_, _, _)
HunkPlacesFrom(diff_text, i, path) ==
    IF i > Len(diff_text) THEN <<>>
    ELSE IF diff_text[i].k = "file"
         THEN HunkPlacesFrom(diff_text, i + 1, diff_text[i].path)
    ELSE IF diff_text[i].k = "@@"
         THEN <<[file_path |-> path, old_start |-> diff_text[i].n]>>
              \o HunkPlacesFrom(diff_text, i + 1, path)
    ELSE HunkPlacesFrom(diff_text, i + 1, path)

HunkPlaces(diff_text) == HunkPlacesFrom(diff_text, 1, <<>>)

\* C25: in the list split_hunks returns for one diff the hunk_id values are
\* 0, 1, 2, ... along the list (distinct, strictly increasing, numbered across
\* the files and not restarted per file), and the hunks are in
\* file-then-position order: one hunk per `@@` block in the order of the diff
\* text, the hunks of a file contiguous.
C25_HunkIdsAndOrder ==
    lastCommit.outcome = "filtered" =>
        LET hunks == lastCommit.diff.hunks
        IN  /\ \A c \in 1..Len(hunks) : hunks[c].hunk_id = c - 1
            /\ \A c, d \in 1..Len(hunks) :
                   c < d => hunks[c].hunk_id < hunks[d].hunk_id
            /\ hunks # <<>> =>
                   [c \in 1..Len(hunks) |->
                       [file_path |-> hunks[c].file_path,
                        old_start |-> hunks[c].old_start]]
                       = HunkPlaces(lastCommit.commit.diff_text)
            /\ \A a, b, c \in 1..Len(hunks) :
                   (a < b /\ b < c /\ hunks[a].file_path = hunks[c].file_path)
                       => hunks[b].file_path = hunks[a].file_path

\* C25 witness: a diff of several files, the first with two hunks, whose
\* third hunk is the first hunk of the second file and has hunk_id 2
C25_Witness ==
    /\ lastCommit.outcome = "filtered"
    /\ Len(lastCommit.diff.hunks) >= 3
    /\ lastCommit.diff.hunks[1].file_path = lastCommit.diff.hunks[2].file_path
    /\ lastCommit.diff.hunks[2].old_start > lastCommit.diff.hunks[1].old_start
    /\ lastCommit.diff.hunks[3].file_path # lastCommit.diff.hunks[2].file_path
    /\ lastCommit.diff.hunks[3].hunk_id = 2

(***************************************************************************)
(* Properties of the fused label (03)                                      *)
(***************************************************************************)
\* the severities the present signals of the row r report
ReportedSeverities(r, keyword_patterns) ==
    {classify_by_keywords(r.message.text, keyword_patterns).severity,
     classify_by_file_path(r.file_path).severity,
     classify_by_change_size(r.insertions, r.deletions).severity} \ {"None"}

\* C26 as stated: among the inputs assign_severity can be called with there
\* are some for which the fused severity_label is a severity none of the
\* present signals reported.
C26_LabelOfNoSignalExists ==
    spc # "idle" =>
        \E r \in Rows : \E keyword_patterns \in KeywordConfigs :
            LET res == assign_severity(r, keyword_patterns)
            IN  /\ res.status = "returned"
                /\ res.severity_label
                       \notin ReportedSeverities(r, keyword_patterns)

\* C26 amended: whenever assign_severity returns, the fused severity_label is
\* a severity reported by at least one present signal, also when the signals
\* disagree.
C26_LabelReportedBySomeSignal ==
    Returned =>
        /\ result.severity_label # "None"
        /\ result.severity_label \in
               {KeywordSignal.severity, FilePathSignal.severity,
                ChangeSizeSignal.severity}

\* C26 witness: the three signals are present and report three different
\* severities
C26_Witness ==
    /\ Returned
    /\ {KeywordSignal.severity, FilePathSignal.severity,
        ChangeSizeSignal.severity} = Severities
    /\ result.severity_label \in Severities

(***************************************************************************)
(* Further properties of the temporal aggregator (04)                      *)
(***************************************************************************)
\* C27: in every output row recent_severe_30d <= churn_60d: every record
\* counted in the 30-day high-severity window of a record is also counted in
\* its 60-day churn window.
C27_RecentSevereWithinChurn ==
    \A k \in 1..Len(df) : df[k].recent_severe_30d <= df[k].churn_60d

\* C27 witness: an output row with a high-severity record in its 30-day
\* window and more records in its 60-day window
C27_Witness ==
    /\ tpc = "done"
    /\ \E k \in 1..Len(df) :
           /\ df[k].recent_severe_30d >= 1
           /\ df[k].churn_60d > df[k].recent_severe_30d

\* the three features of the record R computed over the whole table t
WholeTableFeatures(t, R) ==
    <<compute_file_age(t, R.file_path, R.commit_time),
      compute_churn(t, R.file_path, R.commit_time, ChurnWindowDays),
      compute_recent_severe(t, R.file_path, R.commit_time, SevereWindowDays)>>

\* C28: the features of a record depend neither on the row order of the
\* input nor on where the sort places equal timestamps: what the loop
\* computes over the sorted prefix df.iloc[:idx+1] is what the same functions
\* give over the whole sorted table and over the whole input table in its
\* own order, and every placement of equal timestamps gives the record the
\* same features.
C28_OrderIndependent ==
    \A k \in 1..Len(df) :
        k < idx =>
            /\ FeaturesOf(df[k]) = WholeTableFeatures(df, df[k])
            /\ FeaturesOf(df[k]) = WholeTableFeatures(tInput, df[k])
            /\ RerunFeatures(tInput, df[k].rid) = {FeaturesOf(df[k])}

\* C28 witness: an input that is not in time order, with two same-file
\* records of equal timestamps that have an older record in their window
C28_Witness ==
    /\ tpc = "done"
    /\ Len(tInput) = 3
    /\ tInput[1].commit_time > tInput[2].commit_time
    /\ \E k, j \in 1..Len(df) :
           /\ k < j
           /\ df[k].file_path = df[j].file_path
           /\ df[k].commit_time = df[j].commit_time
           /\ df[k].churn_60d = 1
           /\ df[j].churn_60d = 1

(***************************************************************************)
(* Further properties of extract_issue_id (02)                             *)
(***************************************************************************)
\* C29: the third pattern (closing verb, white space, '#<digits>') never
\* determines the result: every message it matches is matched by the first
\* pattern '#<digits>', so a returned reference is the digit group of the
\* first pattern or, when that does not match, of the second, and a message
\* with both 'GH-<n>' and '#<m>' returns m wherever 'GH-<n>' stands.
C29_ThirdPatternNeverDecides ==
    ipc = "returned" =>
        /\ re_search(patterns[3], commit_message).matched
               => re_search(patterns[1], commit_message).matched
        /\ ~ issue_id.none => (HashPlaces # {} \/ GhPlaces # {})
        /\ (~ issue_id.none /\ HashPlaces = {}) =>
               issue_id = IssueId(DigitRun(commit_message, LeftMost(GhPlaces) + 1))
        /\ (HashPlaces # {} /\ GhPlaces # {}) =>
               issue_id = IssueId(DigitRun(commit_message, LeftMost(HashPlaces) + 1))

\* C29 witness: 'Fixes #7' is matched by the third pattern and returns 7,
\* the group of the first
C29_Witness ==
    /\ ipc = "returned"
    /\ commit_message = <<"Fixes", " ", "#", "7">>
    /\ re_search(patterns[3], commit_message).matched
    /\ issue_id = IssueId(<<"7">>)

(***************************************************************************)
(* Properties of the pagination generator (historic_backfill)              *)
(***************************************************************************)
\* paged never hands the consumer more than limit items
C30_AtMostLimit == yielded <= limit

\* C30: every iteration of the loop of paged makes progress towards its end:
\* a request is followed by items being yielded, by the next link being
\* taken or by the end of the loop, and a 403 answer is not followed by a
\* request of the same url without a sleep in between (an iteration that
\* sleeps before it retries is not held against the claim).
C30_EveryIterationProgresses ==
    [][nRequests' > nRequests =>
           \/ yielded' > yielded
           \/ url' # url
           \/ gpc' # "loop"
           \/ slept' > slept]_vars

\* the generator is about to request again the url that has just answered
\* 403 without the rate-limit text, and it has not slept
C30_RetriesWithoutSleep ==
    /\ gpc = "loop"
    /\ LoopCondition
    /\ resp.status_code = 403
    /\ rate_limit_sleep(resp) = 0
    /\ nRequests >= 2
    /\ slept = 0
    /\ yielded = 0
    /\ url = Urls[1]

====
